---- MODULE Spec2Model ----
\* Model of the storage helpers: the POSIX helper and its file handle
\* (src/src/posixHelper.cc) run as tasks on a pool of worker threads, and the
\* S3 helper (src/src/s3Helper.cc).
\*   Spec      the helper and one handle: identity scope, retry, release
\*   SpecCall  one call at a time with its arguments and data
\*   SpecLink  symlink and readlink calls over the links of a file system
\*   SpecWrite two writes running on two workers against one handle
\* and of the CommunicationHandler of the proxy helper
\* (src/src/communicationHandler.cc).
\*   SpecComm  caller threads in communicate, and the messages that come in
\*   SpecPair  two caller threads in communicate
\*   SpecConn  openConnection, closeConnection, the push channel, sendMessage
\*             and the connection handlers run by the worker thread
\*   SpecCtx   the identity scope for every requested uid and gid
\*   SpecRegion  S3Helper::getRegion over hostnames
\*   SpecProxy the worker threads of GlusterFSHelperProxy
\*             (src/test/integration/glusterfs_helper_test/glusterfsHelperProxy.cc)
EXTENDS Integers, Sequences, FiniteSets, TLC

\* ---------------------------------------------------------------- bounds

\* retry budget: how many times retry() reissues a failed call
MaxRetries == 2
\* tasks waiting in the executor at once
MaxQueue == 2
\* release() calls made by the owners of the handle
MaxReleases == 2
\* writev chunks of one write (0: the buffer is empty)
MaxChunks == 2
\* entries left in a directory stream
MaxEntries == 1

\* ---------------------------------------------------------------- identities

\* static_cast<uid_t>(-1): the id that setfsuid/setfsgid never adopt and that
\* valid() takes as "any"; every uid_t or gid_t other than it is below 2^32 - 1
NoId == -1

\* the real, effective and saved ids of the process: what every thread starts as
ProcCred == [uid |-> 0, gid |-> 0]

\* the pool's worker threads; thread 0 is a caller thread
Workers == {1, 2}
Threads == Workers \cup {0}

\* identities a helper is constructed with
HelperUids == {1000}
HelperGids == {1000, NoId}

\* ---------------------------------------------------------------- errno

POSIX_RETRY_ERRORS ==
    {"EINTR", "EIO", "EAGAIN", "EACCES", "EBUSY", "EMFILE", "ETXTBSY",
     "ESPIPE", "EMLINK", "EPIPE", "EDEADLK", "EWOULDBLOCK", "ENOLINK",
     "EADDRINUSE", "EADDRNOTAVAIL", "ENETDOWN", "ENETUNREACH",
     "ECONNABORTED", "ECONNRESET", "ENOTCONN", "EHOSTUNREACH", "ECANCELED",
     "ESTALE", "ENONET", "EHOSTDOWN", "EREMOTEIO", "ENOMEDIUM"}

\* syscalls that take the handle's descriptor
FdSyscalls == {"pread", "lseek", "writev", "fsync", "close"}

\* the failures the backend produces for a syscall in this model: a retry
\* error and another error for each
SysErrors(sys) ==
    CASE sys = "lseek"    -> {"ESPIPE", "EINVAL"}
      [] sys = "close"    -> {"EINTR", "EIO"}
      [] sys = "writev"   -> {"EAGAIN", "ENOSPC"}
      [] sys \in {"pread", "fsync"} -> {"EIO", "EINVAL"}
      [] sys = "getxattr" -> {"EIO", "ERANGE"}
      [] OTHER            -> {"EIO", "ENOENT"}

\* ---------------------------------------------------------------- operations

\* operations that are one syscall run through retry() with
\* POSIXRetryCondition: operation |-> the syscall (and the name given to the
\* retry condition)
SimpleOps ==
    [getattr |-> "lstat", access |-> "access", readlink |-> "readlink",
     mkdir |-> "mkdir", unlink |-> "unlink", rmdir |-> "rmdir",
     symlink |-> "symlink", rename |-> "rename", link |-> "link",
     chmod |-> "chmod", chown |-> "chown", truncate |-> "truncate",
     removexattr |-> "removexattr", read |-> "pread", fsync |-> "fsync",
     open |-> "open", release |-> "close"]

HandleOps == {"read", "write", "fsync", "flush", "release"}

HelperOps ==
    {"getattr", "access", "readdir", "readlink", "mknod", "mkdir", "unlink",
     "rmdir", "symlink", "rename", "link", "chmod", "chown", "truncate",
     "open", "getxattr", "setxattr", "removexattr", "listxattr"}

NoArg == [kind |-> "-", n |-> 0, count |-> 0, create |-> FALSE, replace |-> FALSE]

\* the arguments an operation is called with in this model
OpArgs(op) ==
    CASE op = "write"     -> {[NoArg EXCEPT !.n = c] : c \in 0..MaxChunks}
      [] op = "readdir"   -> {[NoArg EXCEPT !.n = e, !.count = c] :
                                 e \in 0..MaxEntries, c \in 0..1}
      [] op = "mknod"     -> {[NoArg EXCEPT !.kind = k] : k \in {"reg", "fifo", "dev"}}
      [] op = "setxattr"  -> {[NoArg EXCEPT !.create = c, !.replace = r] :
                                 c \in BOOLEAN, r \in BOOLEAN}
      [] op = "listxattr" -> {[NoArg EXCEPT !.n = b] : b \in 0..1}
      [] OTHER            -> {NoArg}

\* ---------------------------------------------------------------- state

VARIABLES
    m_uid,          \* the helper's uid (copied into every handle and task)
    m_gid,          \* the helper's gid
    caps,           \* capabilities of the process: subset of {"setuid", "setgid"}
    fsuid,          \* filesystem uid of each thread
    fsgid,          \* filesystem gid of each thread
    errno,          \* errno of each thread; "?" when no call of the running task
                    \* has set it: what earlier code on the thread left there
    handle,         \* the PosixFileHandle: "none", "live" or "destroyed"
    m_needsRelease, \* the handle's atomic flag
    fd,             \* the descriptor m_fh in the kernel: "unused", "open", "closed"
    closeLog,       \* the close(m_fh) calls issued so far: how many (calls), how
                    \* many of them failed with a retry error (transient), and how
                    \* many succeeded (oks)
    releaseLog,     \* what every release() call returned: "task" or "ready"
    dtor,           \* what the handle's destructor did: "-" (not run), "skip"
                    \* (the flag was down), "invalid" (it took the flag and its
                    \* identity scope was not valid) or "close" (it called close)
    queue,          \* tasks submitted to the executor and not yet started
    task,           \* the task each worker runs, or ran last
    call,           \* SpecCall: the call in progress, its arguments and locals
    symlinks,       \* SpecCall: the symbolic links of the file system:
                    \* path |-> the target stored in the link
    filePos,        \* SpecWrite: the file offset of the descriptor m_fh
    wr,             \* SpecWrite: the write each worker runs
    m_currentMsgId,      \* SpecComm: the CommunicationHandler's id counter
    m_incomingMessages,  \* SpecComm: the inbox: message id |-> payload
    m_connectStatus,     \* SpecComm: the status of the connection
    m_pushCallback,      \* SpecComm: whether a push callback is set
    comm,                \* SpecComm: the communicate call of each caller thread
    event,               \* SpecComm: what the last step of the handler did
    conn                 \* SpecConn: the connection: the endpoint and its worker
                         \* thread, m_connectMutex, the push channel flag, and
                         \* where the caller is in openConnection,
                         \* closeConnection or sendMessage
VARIABLE
    proxy                \* SpecProxy: the calls in progress on a
                         \* GlusterFSHelperProxy, counted by where they are

posixVars == <<m_uid, m_gid, caps, fsuid, fsgid, errno, handle, m_needsRelease, fd,
               closeLog, releaseLog, dtor, queue, task>>
callVars == <<call, symlinks>>
writeVars == <<filePos, wr>>
commVars == <<m_currentMsgId, m_incomingMessages, m_connectStatus, m_pushCallback,
              comm, event, conn>>

vars == <<posixVars, callVars, writeVars, commVars, proxy>>

\* a GlusterFSHelperProxy with no call in progress
NoProxy ==
    [openQueued |-> 0, opening |-> 0, nestedQueued |-> 0, nestedRunning |-> 0,
     callerQueued |-> 0, callerRunning |-> 0]

\* the caller threads of the CommunicationHandler
CommThreads == {1, 2}

\* a default-constructed Answer
NoAnswer == [message_id |-> 0, answer_status |-> "-"]

NoComm ==
    [pc |-> "idle", arg |-> 0, retry |-> 0, msgId |-> 0, sends |-> 0, timer |-> 0,
     failed |-> "-", answer |-> NoAnswer, callback |-> FALSE, dispatched |-> FALSE]

NoEvent == [act |-> "-"]

\* the connection after the constructor: no endpoint, no worker thread, the
\* mutex free, m_isPushChannel(false), an empty m_fuseID (m_fuseID: whether
\* the string is non-empty)
NoConn ==
    [pc |-> "idle", m_isPushChannel |-> FALSE, m_fuseID |-> FALSE,
     m_endpoint |-> FALSE, m_connectMutex |-> "-", m_worker1 |-> "none",
     stopped |-> FALSE, link |-> "closed", seen |-> "-"]

\* the CommunicationHandler after its constructor, with no call made
\* (m_errorCount, which only getErrorCount reads, is not followed)
CommIdle ==
    /\ m_currentMsgId = 1
    /\ m_incomingMessages = <<>>
    /\ m_connectStatus = "CLOSED"
    /\ m_pushCallback = FALSE
    /\ comm = [t \in CommThreads |-> NoComm]
    /\ event = NoEvent
    /\ conn = NoConn

NoStage == [sys |-> "-", policy |-> "none", phase |-> 0]
NoLast == [sys |-> "-", ret |-> "-", calls |-> 0, incs |-> 0, tfails |-> 0]

IdleTask ==
    [pc |-> "idle", op |-> "-", arg |-> NoArg, st |-> NoStage,
     calls |-> 0, incs |-> 0, tfails |-> 0, n |-> 0, cnt |-> 0, got |-> 0,
     res |-> "-", valid |-> TRUE, issued |-> FALSE,
     entry |-> ProcCred, prev |-> ProcCred, last |-> NoLast]

\* no call in progress
NoCall == [op |-> "-", pc |-> "idle", arg |-> <<>>, loc |-> <<>>, res |-> "-"]

\* a file system without symbolic links
NoLinks == <<>>

\* no write in progress
NoWrite == [pc |-> "idle", arg |-> <<>>, loc |-> <<>>, res |-> "-", ret |-> <<>>]

\* ---------------------------------------------------------------- identity scope

\* setfsuid / setfsgid: the new id of the calling thread. The id is adopted when
\* it is a valid id and the thread may adopt it (it holds the capability, or the
\* id is one of the process's own ids or the current one)
SetFsId(cur, id, own, hasCap) ==
    IF id # NoId /\ (hasCap \/ id \in {own, cur}) THEN id ELSE cur

\* UserCtxSetter's constructor on thread t for (uid, gid)
UserCtxSetter(t, uid, gid) ==
    LET newUid == SetFsId(fsuid[t], uid, ProcCred.uid, "setuid" \in caps)
        newGid == SetFsId(fsgid[t], gid, ProcCred.gid, "setgid" \in caps)
    IN  [m_uid |-> uid, m_gid |-> gid,
         m_prevUid |-> fsuid[t], m_prevGid |-> fsgid[t],
         m_currUid |-> newUid, m_currGid |-> newGid]

\* valid() without the wildcard: an id of -1 has to be adopted as well
CtxValidNoWildcard(ctx) ==
    ctx.m_currUid = ctx.m_uid /\ ctx.m_currGid = ctx.m_gid

\* valid() that forgets the gid
CtxValidUidOnly(ctx) == ctx.m_uid = NoId \/ ctx.m_currUid = ctx.m_uid

\* UserCtxSetter::valid
CtxValid(ctx) ==
    /\ (ctx.m_uid = NoId \/ ctx.m_currUid = ctx.m_uid)
    /\ (ctx.m_gid = NoId \/ ctx.m_currGid = ctx.m_gid)

\* a destructor that restores the uid and leaves the gid
UserCtxRestoreUidOnly(cur, prev) ==
    [uid |-> SetFsId(cur.uid, prev.uid, ProcCred.uid, "setuid" \in caps),
     gid |-> cur.gid]

\* whether the thread's ids cur are the requested ones (NoId requests none)
ScopeAdopted(uid, gid, cur) ==
    (uid = NoId \/ cur.uid = uid) /\ (gid = NoId \/ cur.gid = gid)

\* UserCtxSetter's destructor: the ids of the thread after it
UserCtxRestore(cur, prev) ==
    [uid |-> SetFsId(cur.uid, prev.uid, ProcCred.uid, "setuid" \in caps),
     gid |-> SetFsId(cur.gid, prev.gid, ProcCred.gid, "setgid" \in caps)]

\* ---------------------------------------------------------------- retry

\* one::helpers::retry: after a call whose result does not satisfy the
\* condition, the call is reissued while the budget lasts (calls: the calls
\* made so far, this one included)
RetryAgain(condition, calls) == ~condition /\ calls <= MaxRetries

\* POSIXRetryCondition: result >= 0, or errno is not a retry error
POSIXRetryCondition(ok, err) == ok \/ err \notin POSIX_RETRY_ERRORS

\* the condition given to retry for opendir and readdir
DirRetryCondition(nonNull, err) == nonNull \/ err \notin POSIX_RETRY_ERRORS

\* the condition given to retry for writev
WritevRetryCondition(ok) == ok

\* the condition of a stage, by its policy
RetryCondition(policy, ok, err) ==
    CASE policy = "posix" -> POSIXRetryCondition(ok, err)
      [] policy = "set"   -> DirRetryCondition(ok, err)
      [] policy = "any"   -> WritevRetryCondition(ok)
      [] OTHER            -> TRUE

\* increments of comp.helpers.mod.posix.<operation>.retries made by one
\* evaluation of the stage's condition
RetriesCounterInc(policy, condition) ==
    IF policy = "posix" /\ ~condition THEN 1 ELSE 0

\* ---------------------------------------------------------------- programs

Stage(sys, policy, phase) == [sys |-> sys, policy |-> policy, phase |-> phase]

\* what a task does after its identity scope is found valid: its first syscall,
\* or (fin) its result when it issues none
FirstStage(op, arg) ==
    CASE op \in DOMAIN SimpleOps ->
            [fin |-> FALSE, res |-> "-", st |-> Stage(SimpleOps[op], "posix", 1)]
      [] op = "flush" ->
            [fin |-> TRUE, res |-> "OK", st |-> NoStage]
      [] op = "write" ->
            [fin |-> FALSE, res |-> "-", st |-> Stage("lseek", "none", 1)]
      [] op = "readdir" ->
            [fin |-> FALSE, res |-> "-", st |-> Stage("opendir", "set", 1)]
      [] op = "mknod" ->
            [fin |-> FALSE, res |-> "-",
             st |-> Stage(CASE arg.kind = "reg" -> "open"
                            [] arg.kind = "fifo" -> "mkfifo"
                            [] OTHER -> "mknod", "posix", 1)]
      [] op = "getxattr" ->
            [fin |-> FALSE, res |-> "-", st |-> Stage("getxattr", "posix", 1)]
      [] op = "listxattr" ->
            [fin |-> FALSE, res |-> "-", st |-> Stage("listxattr", "posix", 1)]
      [] op = "setxattr" ->
            IF arg.create /\ arg.replace
            THEN [fin |-> TRUE, res |-> "EINVAL", st |-> NoStage]
            ELSE [fin |-> FALSE, res |-> "-", st |-> Stage("setxattr", "posix", 1)]

Finish(t, res) == [fin |-> TRUE, res |-> res, st |-> t.st, n |-> t.n, cnt |-> t.cnt, got |-> t.got]

Goto(t, st, n, cnt, got) == [fin |-> FALSE, res |-> "-", st |-> st, n |-> n, cnt |-> cnt, got |-> got]

\* a getxattr that reads again after any failure of its first read
GetxattrAgainOnAnyError(phase, ret) == phase = 1 /\ ret # "OK"

\* getxattr: whether the read that returned ret is followed by the read with a
\* buffer of XATTR_SIZE_MAX bytes (res == -1 && errno == ERANGE, first read only)
GetxattrAgain(phase, ret) == phase = 1 /\ ret = "ERANGE"

\* a setxattr that passes XATTR_CREATE for replace as well
XattrFlagsCreateAlways(create, replace) ==
    IF create \/ replace THEN "XATTR_CREATE" ELSE "0"

\* setxattr: the flags given to the syscall
XattrFlags(create, replace) ==
    IF create THEN "XATTR_CREATE" ELSE IF replace THEN "XATTR_REPLACE" ELSE "0"

\* what the flags of setxattr add to the errors of the syscall: XATTR_CREATE
\* fails when the attribute exists, XATTR_REPLACE when it does not
XattrFlagErrors(flags) ==
    CASE flags = "XATTR_CREATE"  -> {"EEXIST"}
      [] flags = "XATTR_REPLACE" -> {"ENODATA"}
      [] OTHER                   -> {}

\* what task t does after the call (or retry loop) of its stage returned ret
\* ("OK", "EOS": a null entry at the end of the directory stream, or an errno)
AfterStage(t, ret) ==
    CASE t.op = "write" /\ t.st.sys = "lseek" ->
            IF ret # "OK" THEN Finish(t, ret)
            ELSE IF t.arg.n = 0 THEN Finish(t, "OK")
            ELSE Goto(t, Stage("writev", "any", 1), t.arg.n, 0, 0)
      [] t.op = "write" /\ t.st.sys = "writev" ->
            IF ret # "OK" THEN Finish(t, ret)
            ELSE IF t.n = 1 THEN Finish(t, "OK")
            ELSE Goto(t, Stage("writev", "any", t.st.phase + 1), t.n - 1, 0, t.got + 1)
      [] t.op = "readdir" /\ t.st.sys = "opendir" ->
            IF ret # "OK" THEN Finish(t, ret)
            ELSE Goto(t, Stage("readdir", "set", 1), t.arg.n, t.arg.count, 0)
      [] t.op = "readdir" /\ t.st.sys = "readdir" ->
            IF ret = "OK" /\ t.cnt > 0
            THEN Goto(t, Stage("readdir", "set", t.st.phase + 1), t.n - 1, t.cnt - 1, t.got + 1)
            ELSE Finish(t, "OK")
      [] t.op = "mknod" /\ t.st.sys = "open" ->
            IF ret # "OK" THEN Finish(t, ret)
            ELSE Goto(t, Stage("close", "none", 2), 0, 0, 0)
      [] t.op = "getxattr" ->
            IF GetxattrAgain(t.st.phase, ret)
            THEN Goto(t, Stage("getxattr", "posix", 2), 0, 0, 0)
            ELSE Finish(t, ret)
      [] t.op = "listxattr" /\ t.st.phase = 1 ->
            IF ret # "OK" THEN Finish(t, ret)
            ELSE IF t.arg.n = 0 THEN Finish(t, "OK")
            ELSE Goto(t, Stage("listxattr", "none", 2), 0, 0, 0)
      [] OTHER -> Finish(t, ret)

\* whether the stage's syscall takes the handle's descriptor m_fh
OnHandleFd(t) == t.op \in HandleOps /\ t.st.sys \in FdSyscalls

\* what the backend may answer to the stage's syscall
Outcomes(t) ==
    IF OnHandleFd(t) /\ fd # "open" THEN {"EBADF"}
    ELSE IF t.st.sys = "readdir"
         THEN (IF t.n > 0 THEN {"OK"} ELSE {"EOS"}) \cup SysErrors("readdir")
         ELSE IF t.st.sys = "setxattr"
         THEN {"OK"} \cup SysErrors("setxattr")
                     \cup XattrFlagErrors(XattrFlags(t.arg.create, t.arg.replace))
         ELSE {"OK"} \cup SysErrors(t.st.sys)

\* the value read from errno: the one the task's last failed call set, or, when
\* none has failed yet, any value earlier code on the thread may have left
StaleErrno(e) == IF e = "?" THEN {"0", "EIO"} ELSE {e}

\* closeLog after close(m_fh) answered o
Logged(log, o) ==
    [calls |-> log.calls + 1,
     transient |-> log.transient + (IF o \in POSIX_RETRY_ERRORS THEN 1 ELSE 0),
     oks |-> log.oks + (IF o = "OK" THEN 1 ELSE 0)]

\* the descriptor after close(m_fh) answered o: closed on success; after EINTR
\* the descriptor's state is unspecified
FdAfterClose(o) ==
    CASE o = "OK"    -> {"closed"}
      [] o = "EINTR" -> {fd, "closed"}
      [] OTHER       -> {fd}

\* ---------------------------------------------------------------- actions

Init ==
    /\ m_uid \in HelperUids
    /\ m_gid \in HelperGids
    /\ caps = {"setuid", "setgid"}
    /\ fsuid = [t \in Threads |-> ProcCred.uid]
    /\ fsgid = [t \in Threads |-> ProcCred.gid]
    /\ errno = [t \in Threads |-> "?"]
    /\ handle = "none"
    /\ m_needsRelease = FALSE
    /\ fd = "unused"
    /\ closeLog = [calls |-> 0, transient |-> 0, oks |-> 0]
    /\ releaseLog = <<>>
    /\ dtor = "-"
    /\ queue = <<>>
    /\ task = [w \in Workers |-> IdleTask]
    /\ call = NoCall
    /\ symlinks = NoLinks
    /\ filePos = 0
    /\ wr = [w \in Workers |-> NoWrite]
    /\ CommIdle
    /\ proxy = NoProxy

\* the process gives up a capability
DropCap(c) ==
    /\ c \in caps
    /\ caps' = caps \ {c}
    /\ UNCHANGED <<m_uid, m_gid, fsuid, fsgid, errno, handle, m_needsRelease, fd,
                   closeLog, releaseLog, dtor, queue, task>>
    /\ UNCHANGED <<callVars, writeVars, commVars, proxy>>

OpenPending ==
    \/ \E i \in 1..Len(queue) : queue[i].op = "open"
    \/ \E w \in Workers : task[w].pc = "sys" /\ task[w].op = "open"

\* a helper or handle operation other than release(): folly::via(executor, task)
Submit(op, arg) ==
    /\ Len(queue) < MaxQueue
    /\ op # "release"
    /\ op \in HandleOps => handle = "live"
    /\ op = "open" => handle = "none" /\ ~OpenPending
    /\ queue' = Append(queue, [op |-> op, arg |-> arg])
    /\ UNCHANGED <<m_uid, m_gid, caps, fsuid, fsgid, errno, handle, m_needsRelease,
                   fd, closeLog, releaseLog, dtor, task>>
    /\ UNCHANGED <<callVars, writeVars, commVars, proxy>>

\* a release() that does not look at the flag
NeedsReleaseIgnored(flag) == TRUE

\* m_needsRelease.exchange(false) in release(): the value the flag had
NeedsReleaseExchange(flag) == flag

\* PosixFileHandle::release, called by an owner of the handle
Release ==
    /\ handle = "live"
    /\ Len(releaseLog) < MaxReleases
    /\ m_needsRelease' = FALSE
    /\ IF NeedsReleaseExchange(m_needsRelease)
       THEN /\ Len(queue) < MaxQueue
            /\ queue' = Append(queue, [op |-> "release", arg |-> NoArg])
            /\ releaseLog' = Append(releaseLog, "task")
       ELSE /\ queue' = queue
            /\ releaseLog' = Append(releaseLog, "ready")
    /\ UNCHANGED <<m_uid, m_gid, caps, fsuid, fsgid, errno, handle, fd, closeLog,
                   dtor, task>>
    /\ UNCHANGED <<callVars, writeVars, commVars, proxy>>

\* a destructor that does not look at the flag
DtorNeedsReleaseIgnored(flag) == TRUE

\* m_needsRelease.exchange(false) in the destructor: the value the flag had
DtorNeedsReleaseExchange(flag) == flag

\* PosixFileHandle::~PosixFileHandle, run by thread t when the last owner drops
\* the handle
Destroy(t) ==
    /\ handle = "live"
    /\ t \in Workers => task[t].pc = "idle"
    /\ handle' = "destroyed"
    /\ m_needsRelease' = FALSE
    /\ LET ctx == UserCtxSetter(t, m_uid, m_gid)
           cur == [uid |-> ctx.m_currUid, gid |-> ctx.m_currGid]
           prev == [uid |-> ctx.m_prevUid, gid |-> ctx.m_prevGid]
           after == UserCtxRestore(cur, prev)
       IN  /\ fsuid' = [fsuid EXCEPT ![t] = after.uid]
           /\ fsgid' = [fsgid EXCEPT ![t] = after.gid]
           /\ dtor' = IF ~DtorNeedsReleaseExchange(m_needsRelease) THEN "skip"
                      ELSE IF ~CtxValid(ctx) THEN "invalid" ELSE "close"
           /\ IF DtorNeedsReleaseExchange(m_needsRelease) /\ CtxValid(ctx)
              THEN \E o \in (IF fd = "open" THEN {"OK"} \cup SysErrors("close")
                                            ELSE {"EBADF"}) :
                      /\ closeLog' = Logged(closeLog, o)
                      /\ fd' \in FdAfterClose(o)
              ELSE UNCHANGED <<closeLog, fd>>
    /\ UNCHANGED <<m_uid, m_gid, caps, errno, releaseLog, queue, task>>
    /\ UNCHANGED <<callVars, writeVars, commVars, proxy>>

\* the record of a task that ended with res: what it was, its result, and its
\* last retry loop
Done(t, res, last) ==
    [IdleTask EXCEPT !.pc = "done", !.op = t.op, !.res = res, !.valid = t.valid,
                     !.issued = (last.calls > 0) \/ t.issued, !.entry = t.entry,
                     !.got = t.got, !.last = last]

\* the caller takes the result of a finished task
Collect(w) ==
    /\ task[w].pc = "done"
    /\ task' = [task EXCEPT ![w] = IdleTask]
    /\ UNCHANGED <<m_uid, m_gid, caps, fsuid, fsgid, errno, handle, m_needsRelease,
                   fd, closeLog, releaseLog, dtor, queue>>
    /\ UNCHANGED <<callVars, writeVars, commVars, proxy>>

\* nothing is queued, running or waiting to be collected: the point at which a
\* caller that chains its operations issues the next one
Quiet == queue = <<>> /\ \A w \in Workers : task[w].pc = "idle"

\* a worker takes the next task and runs it up to its first syscall
Start(w) ==
    /\ task[w].pc = "idle"
    /\ queue # <<>>
    /\ queue' = Tail(queue)
    /\ LET d == Head(queue)
           ctx == UserCtxSetter(w, m_uid, m_gid)
           cur == [uid |-> ctx.m_currUid, gid |-> ctx.m_currGid]
           prev == [uid |-> ctx.m_prevUid, gid |-> ctx.m_prevGid]
           after == UserCtxRestore(cur, prev)
           f == FirstStage(d.op, d.arg)
           t0 == [IdleTask EXCEPT !.op = d.op, !.arg = d.arg,
                                  !.entry = [uid |-> fsuid[w], gid |-> fsgid[w]],
                                  !.prev = prev,
                                  !.valid = ScopeAdopted(m_uid, m_gid, cur)]
       IN  IF ~CtxValid(ctx)
           THEN /\ task' = [task EXCEPT ![w] = Done(t0, "EDOM", NoLast)]
                /\ fsuid' = [fsuid EXCEPT ![w] = after.uid]
                /\ fsgid' = [fsgid EXCEPT ![w] = after.gid]
           ELSE IF f.fin
           THEN /\ task' = [task EXCEPT ![w] = Done(t0, f.res, NoLast)]
                /\ fsuid' = [fsuid EXCEPT ![w] = after.uid]
                /\ fsgid' = [fsgid EXCEPT ![w] = after.gid]
           ELSE /\ task' = [task EXCEPT ![w] = [t0 EXCEPT !.pc = "sys", !.st = f.st]]
                /\ fsuid' = [fsuid EXCEPT ![w] = cur.uid]
                /\ fsgid' = [fsgid EXCEPT ![w] = cur.gid]
    /\ UNCHANGED <<m_uid, m_gid, caps, errno, handle, m_needsRelease, fd, closeLog,
                   releaseLog, dtor>>
    /\ UNCHANGED <<callVars, writeVars, commVars, proxy>>

\* a worker issues the syscall of its task's stage once, evaluates the retry
\* condition, and either stays in the retry loop or goes on with the operation
SysCall(w) ==
    /\ task[w].pc = "sys"
    /\ LET t == task[w] IN
       \E o \in Outcomes(t), stale \in StaleErrno(errno[w]) :
          LET ok == (o = "OK")
              err == IF o \in {"OK", "EOS"} THEN stale ELSE o
              cond == RetryCondition(t.st.policy, ok, err)
              calls == t.calls + 1
              incs == t.incs + RetriesCounterInc(t.st.policy, cond)
              tfails == t.tfails + (IF ~ok /\ o \in POSIX_RETRY_ERRORS THEN 1 ELSE 0)
              again == t.st.policy # "none" /\ RetryAgain(cond, calls)
              ret == IF o \in {"OK", "EOS"} THEN o ELSE err
              a == AfterStage(t, ret)
              last == [sys |-> t.st.sys, ret |-> ret, calls |-> calls,
                       incs |-> incs, tfails |-> tfails]
              cur == [uid |-> fsuid[w], gid |-> fsgid[w]]
              after == UserCtxRestore(cur, t.prev)
              closing == OnHandleFd(t) /\ t.st.sys = "close"
          IN  /\ errno' = [errno EXCEPT ![w] =
                            IF ~again /\ a.fin THEN "?"
                            ELSE IF o \in {"OK", "EOS"} THEN @ ELSE o]
              /\ IF closing
                 THEN /\ closeLog' = Logged(closeLog, o)
                      /\ fd' \in FdAfterClose(o)
                 ELSE /\ closeLog' = closeLog
                      /\ fd' = IF ~again /\ a.fin /\ t.op = "open" /\ a.res = "OK"
                               THEN "open" ELSE fd
              /\ IF again
                 THEN /\ task' = [task EXCEPT ![w] =
                                    [t EXCEPT !.calls = calls, !.incs = incs,
                                              !.tfails = tfails, !.issued = TRUE,
                                              !.last = last]]
                      /\ UNCHANGED <<fsuid, fsgid, handle, m_needsRelease>>
                 ELSE IF a.fin
                 THEN /\ task' = [task EXCEPT ![w] =
                                    Done([t EXCEPT !.got = a.got], a.res, last)]
                      /\ fsuid' = [fsuid EXCEPT ![w] = after.uid]
                      /\ fsgid' = [fsgid EXCEPT ![w] = after.gid]
                      /\ IF t.op = "open" /\ a.res = "OK"
                         THEN handle' = "live" /\ m_needsRelease' = TRUE
                         ELSE UNCHANGED <<handle, m_needsRelease>>
                 ELSE /\ task' = [task EXCEPT ![w] =
                                    [t EXCEPT !.st = a.st, !.calls = 0, !.incs = 0,
                                              !.tfails = 0, !.issued = TRUE,
                                              !.n = a.n, !.cnt = a.cnt, !.got = a.got,
                                              !.last = last]]
                      /\ UNCHANGED <<fsuid, fsgid, handle, m_needsRelease>>
    /\ UNCHANGED <<m_uid, m_gid, caps, releaseLog, dtor, queue>>
    /\ UNCHANGED <<callVars, writeVars, commVars, proxy>>

\* the helper and a handle used by a caller that chains its operations: the
\* next one is issued when the one before has completed
Next ==
    \/ \E c \in {"setuid", "setgid"} : DropCap(c)
    \/ \E op \in HelperOps \cup HandleOps : \E arg \in OpArgs(op) :
          Quiet /\ Submit(op, arg)
    \/ (m_needsRelease => Quiet) /\ Release
    \/ \E t \in Threads : Destroy(t)
    \/ \E w \in Workers : Start(w)
    \/ \E w \in Workers : SysCall(w)
    \/ \E w \in Workers : Collect(w)

Spec == Init /\ [][Next]_vars

\* the ids a helper is constructed with in SpecCtx: the process's own id,
\* another one, and -1
CtxIds == {ProcCred.uid, 1000, NoId}

\* SpecCtx: helpers constructed with any of these uids and gids
CtxInit ==
    /\ m_uid \in CtxIds
    /\ m_gid \in CtxIds
    /\ caps = {"setuid", "setgid"}
    /\ fsuid = [t \in Threads |-> ProcCred.uid]
    /\ fsgid = [t \in Threads |-> ProcCred.gid]
    /\ errno = [t \in Threads |-> "?"]
    /\ handle = "none"
    /\ m_needsRelease = FALSE
    /\ fd = "unused"
    /\ closeLog = [calls |-> 0, transient |-> 0, oks |-> 0]
    /\ releaseLog = <<>>
    /\ dtor = "-"
    /\ queue = <<>>
    /\ task = [w \in Workers |-> IdleTask]
    /\ call = NoCall
    /\ symlinks = NoLinks
    /\ filePos = 0
    /\ wr = [w \in Workers |-> NoWrite]
    /\ CommIdle
    /\ proxy = NoProxy

\* the operations of the helper that take a path and make one syscall, issued
\* one after the other
CtxNext ==
    \/ \E c \in {"setuid", "setgid"} : DropCap(c)
    \/ \E op \in {"getattr", "setxattr"} : \E arg \in OpArgs(op) :
          Quiet /\ Submit(op, arg)
    \/ \E w \in Workers : Start(w)
    \/ \E w \in Workers : SysCall(w)
    \/ \E w \in Workers : Collect(w)

SpecCtx == CtxInit /\ [][CtxNext]_vars

\* ---------------------------------------------------------------- errors

\* the kind of the error a task's future holds: the std::errc of the errno
\* given to makeFuturePosixException
ErrorKind(e) ==
    CASE e \in {"EACCES", "EPERM"} -> "PermissionDenied"
      [] e = "EDOM"   -> "ArgumentOutOfDomain"
      [] e = "ENOENT" -> "NotFound"
      [] e = "EINVAL" -> "InvalidArgument"
      [] e = "ENOSPC" -> "NoSpace"
      [] OTHER        -> "IoError"

\* ---------------------------------------------------------------- one call

\* bits of an int in the model (the platform's int has 32): off_t and size_t
\* are wider, and arguments range over 0 .. 2^IntBits
IntBits == 3
\* names in a directory besides "." and ".."
MaxNames == 3

Names == <<"e0", "e1", "e2", "e3", "e4", "e5">>

Min(a, b) == IF a < b THEN a ELSE b

\* the conversion of an off_t or size_t value to int
ToInt(x) ==
    LET m == x % (2 ^ IntBits)
    IN  IF m >= 2 ^ (IntBits - 1) THEN m - 2 ^ IntBits ELSE m

\* arguments of type off_t or size_t: those an int holds, the first it does not,
\* and the first that wraps to 0
WideArgs == 0..(2 ^ (IntBits - 1)) \cup {2 ^ IntBits}

\* the stream of a directory with n names, "." at place i and ".." at place j
DirStream(n, i, j) ==
    [k \in 1..(n + 2) |->
        IF k = i THEN "."
        ELSE IF k = j THEN ".."
        ELSE Names[k - (IF i < k THEN 1 ELSE 0) - (IF j < k THEN 1 ELSE 0)]]

DirStreams ==
    {DirStream(n, i, j) : <<n, i, j>> \in
        {x \in (0..MaxNames) \X (1..(MaxNames + 2)) \X (1..(MaxNames + 2)) :
            x[2] # x[3] /\ x[2] <= x[1] + 2 /\ x[3] <= x[1] + 2}}

\* the worker that runs the calls of SpecCall
CallWorker == 1

\* the prologue of every POSIX task: whether its identity scope is valid
CallScopeValid == CtxValid(UserCtxSetter(CallWorker, m_uid, m_gid))

CallDone(res, loc) == [call EXCEPT !.pc = "done", !.res = res, !.loc = loc]

\* PosixHelper::readdir up to its loop: the identity scope and opendir (o: what
\* the retry of opendir ended with)
ReaddirStart(dir, offset, count) ==
    /\ call.pc = "idle"
    /\ \E o \in {"OK"} \cup SysErrors("opendir") :
          LET a == [dir |-> dir, offset |-> offset, count |-> count]
              l0 == [pos |-> 0, offset_ |-> ToInt(offset), count_ |-> ToInt(count),
                     ret |-> <<>>, failed |-> "-"]
              c == [NoCall EXCEPT !.op = "readdir", !.arg = a, !.loc = l0]
          IN  call' = IF ~CallScopeValid THEN [c EXCEPT !.pc = "done", !.res = "EDOM"]
                      ELSE IF o # "OK" THEN [c EXCEPT !.pc = "done", !.res = o]
                      ELSE [c EXCEPT !.pc = "readdir"]
    /\ UNCHANGED <<posixVars, symlinks, writeVars, commVars, proxy>>

\* what the retry of readdir(3) ends with: the next entry of the stream, a null
\* pointer at its end ("EOS"), or a null pointer and an errno
ReaddirOutcomes(c) ==
    (IF c.loc.pos < Len(c.arg.dir) THEN {"entry"} ELSE {"EOS"})
        \cup SysErrors("readdir")

\* one evaluation of the condition of the while loop of readdir, and the body
\* or the end of the operation that follows
ReaddirLoop ==
    /\ call.pc = "readdir"
    /\ \E dp \in ReaddirOutcomes(call) :
          LET l == call.loc
              d_name == call.arg.dir[l.pos + 1]
              read == [l EXCEPT !.pos = IF dp = "entry" THEN @ + 1 ELSE @,
                                !.failed = IF dp \in {"entry", "EOS"} THEN @ ELSE dp]
          IN  call' =
                IF dp = "entry" /\ l.count_ > 0
                THEN IF d_name \in {".", ".."}
                     THEN [call EXCEPT !.loc = read]
                     ELSE IF l.offset_ > 0
                     THEN [call EXCEPT !.loc = [read EXCEPT !.offset_ = @ - 1]]
                     ELSE [call EXCEPT !.loc = [read EXCEPT !.ret = Append(@, d_name),
                                                            !.count_ = @ - 1]]
                ELSE CallDone("OK", read)
    /\ UNCHANGED <<posixVars, symlinks, writeVars, commVars, proxy>>

\* ---- read

\* bytes asked of one read
MaxSize == 2
\* the longest a backend call takes, and the longest timeout of a helper
MaxDelay == 2

\* folly::IOBufQueue after preallocate(size, size): room for size bytes, none
\* of them part of the chain yet
Preallocate(size) == [capacity |-> size, length |-> 0]

\* a postallocate that takes in the whole room
PostallocateAll(buf, n) == [buf EXCEPT !.length = buf.capacity]

\* IOBufQueue::postallocate(n): n bytes of the room become part of the chain
Postallocate(buf, n) == [buf EXCEPT !.length = @ + n]

\* what the backend answers to a request for size bytes: the bytes it read, at
\* most size (n), or a failure (n = -1 and the error)
ReadOutcomes(size, errors) ==
    {[n |-> b, err |-> "-"] : b \in 0..size} \cup {[n |-> -1, err |-> e] : e \in errors}

\* PosixFileHandle::read on a helper with timeout m_timeout; the pread (with
\* its retries) returns after elapsed
Read(size, m_timeout, elapsed) ==
    /\ call.pc = "idle"
    /\ \E o \in ReadOutcomes(size, SysErrors("pread")) :
          LET a == [size |-> size, m_timeout |-> m_timeout, elapsed |-> elapsed]
              buf == Preallocate(size)
              c == [NoCall EXCEPT !.op = "read", !.pc = "done", !.arg = a]
          IN  call' =
                IF ~CallScopeValid
                THEN [c EXCEPT !.res = "EDOM", !.loc = [reported |-> -1, buf |-> buf]]
                ELSE IF o.n = -1
                THEN [c EXCEPT !.res = o.err, !.loc = [reported |-> -1, buf |-> buf]]
                ELSE [c EXCEPT !.res = "OK",
                               !.loc = [reported |-> o.n, buf |-> Postallocate(buf, o.n)]]
    /\ UNCHANGED <<posixVars, symlinks, writeVars, commVars, proxy>>

\* ---- symlink, readlink

\* constexpr std::size_t maxSize in readlink
maxSize == 1024

\* the helper's mount point
m_mountPoint == [name |-> "/mnt", len |-> 4]

\* file ids: a name and its length in bytes; rooted: whether the mount point
\* has been joined in front
FileIds ==
    {[rooted |-> FALSE, name |-> n, len |-> l] :
        <<n, l>> \in {<<"a", 1>>, <<"b", 1>>, <<"long", maxSize>>}}

\* PosixHelper::root: the path of a file id under the mount point
root(fileId) ==
    [rooted |-> TRUE, name |-> fileId.name, len |-> m_mountPoint.len + 1 + fileId.len]

\* PosixHelper::symlink(from, to): ::symlink(root(from), root(to)) stores its
\* first argument in the link created at its second
Symlink(from, to) ==
    /\ call.pc = "idle"
    /\ \E o \in {"OK"} \cup SysErrors("symlink") :
          LET c == [NoCall EXCEPT !.op = "symlink", !.pc = "done",
                                  !.arg = [from |-> from, to |-> to]]
              exists == root(to).name \in DOMAIN symlinks
              res == IF ~CallScopeValid THEN "EDOM"
                     ELSE IF o # "OK" THEN o
                     ELSE IF exists THEN "EEXIST" ELSE "OK"
          IN  /\ call' = [c EXCEPT !.res = res]
              /\ symlinks' =
                    IF res = "OK"
                    THEN (root(to).name :> [target |-> root(from), from |-> from])
                             @@ symlinks
                    ELSE symlinks
    /\ UNCHANGED <<posixVars, writeVars, commVars, proxy>>

\* PosixHelper::readlink(fileId): ::readlink(root(fileId), buf, maxSize - 1)
\* copies at most maxSize - 1 bytes of the link's target
Readlink(fileId) ==
    /\ call.pc = "idle"
    /\ \E o \in {"OK"} \cup SysErrors("readlink") :
          LET c == [NoCall EXCEPT !.op = "readlink", !.pc = "done",
                                  !.arg = [fileId |-> fileId]]
              path == root(fileId).name
              res == IF ~CallScopeValid THEN "EDOM"
                     ELSE IF o # "OK" THEN o
                     ELSE IF path \notin DOMAIN symlinks THEN "EINVAL" ELSE "OK"
          IN  call' =
                IF res # "OK" THEN [c EXCEPT !.res = res]
                ELSE [c EXCEPT !.res = "OK",
                               !.loc = [target |->
                                   [symlinks[path].target EXCEPT
                                       !.len = Min(@, maxSize - 1)]]]
    /\ UNCHANGED <<posixVars, symlinks, writeVars, commVars, proxy>>

\* ---- S3

S3Errors ==
    {"INVALID_PARAMETER_VALUE", "MISSING_ACTION", "SERVICE_UNAVAILABLE",
     "NETWORK_CONNECTION", "REQUEST_EXPIRED", "ACCESS_DENIED", "UNKNOWN",
     "NO_SUCH_BUCKET", "NO_SUCH_KEY", "RESOURCE_NOT_FOUND", "INTERNAL_FAILURE",
     "INVALID_QUERY_PARAMETER", "INVALID_PARAMETER_COMBINATION", "SLOW_DOWN",
     "THROTTLING", "INVALID_ACCESS_KEY_ID"}

\* the map from S3 error types to std::errc
g_errors ==
    [INVALID_PARAMETER_VALUE |-> "invalid_argument",
     MISSING_ACTION          |-> "not_supported",
     SERVICE_UNAVAILABLE     |-> "host_unreachable",
     NETWORK_CONNECTION      |-> "network_unreachable",
     REQUEST_EXPIRED         |-> "timed_out",
     ACCESS_DENIED           |-> "permission_denied",
     UNKNOWN                 |-> "no_such_file_or_directory",
     NO_SUCH_BUCKET          |-> "no_such_file_or_directory",
     NO_SUCH_KEY             |-> "no_such_file_or_directory",
     RESOURCE_NOT_FOUND      |-> "no_such_file_or_directory"]

S3_RETRY_ERRORS ==
    {"INTERNAL_FAILURE", "INVALID_QUERY_PARAMETER", "INVALID_PARAMETER_COMBINATION",
     "INVALID_PARAMETER_VALUE", "REQUEST_EXPIRED", "SERVICE_UNAVAILABLE",
     "SLOW_DOWN", "THROTTLING", "NETWORK_CONNECTION"}

\* getReturnCode of an outcome ("SUCCESS" or the error type of a failure)
getReturnCode(outcome) ==
    IF outcome = "SUCCESS" THEN "SUCCESS_CODE"
    ELSE IF outcome \in DOMAIN g_errors THEN g_errors[outcome]
    ELSE "io_error"

\* a condition that ends the retry loop on success only
S3RetryOnAnyError(outcome) == outcome = "SUCCESS"

\* S3RetryCondition: whether the retry loop ends with this outcome
S3RetryCondition(outcome) == outcome = "SUCCESS" \/ outcome \notin S3_RETRY_ERRORS

\* increments of comp.helpers.mod.s3.<operation>.retries made by one
\* evaluation of S3RetryCondition
S3RetriesCounterInc(outcome) == IF S3RetryCondition(outcome) THEN 0 ELSE 1

\* one request of a retry loop answered with outcome: the loop's counters after it
S3Attempt(l, outcome) ==
    [l EXCEPT !.calls = @ + 1, !.incs = @ + S3RetriesCounterInc(outcome),
              !.outcome = outcome]

\* most keys of one bulk delete request
MAX_DELETE_OBJECTS == 1000

\* lengths of the key lists deleted
KeyCounts ==
    {0, 1, MAX_DELETE_OBJECTS, MAX_DELETE_OBJECTS + 1, 2 * MAX_DELETE_OBJECTS + 1}

\* S3Helper::getObject up to its request: the buffer and the range
GetObjectStart(offset, size) ==
    /\ call.pc = "idle"
    /\ call' = [NoCall EXCEPT !.op = "getObject", !.pc = "request",
                              !.arg = [offset |-> offset, size |-> size],
                              !.loc = [calls |-> 0, incs |-> 0, outcome |-> "-",
                                       reported |-> -1, buf |-> Preallocate(size)]]
    /\ UNCHANGED <<posixVars, symlinks, writeVars, commVars, proxy>>

\* one GetObject request of the retry loop, and what follows when the loop ends:
\* the buffer takes the content length the outcome reports
GetObjectRequest ==
    /\ call.op = "getObject"
    /\ call.pc = "request"
    /\ \E o \in ReadOutcomes(call.arg.size, S3Errors) :
          LET outcome == IF o.n = -1 THEN o.err ELSE "SUCCESS"
              l == S3Attempt(call.loc, outcome)
              code == getReturnCode(outcome)
          IN  call' =
                IF RetryAgain(S3RetryCondition(outcome), l.calls)
                THEN [call EXCEPT !.loc = l]
                ELSE IF code # "SUCCESS_CODE"
                THEN CallDone(code, l)
                ELSE CallDone(code, [l EXCEPT !.reported = o.n,
                                              !.buf = Postallocate(@, o.n)])
    /\ UNCHANGED <<posixVars, symlinks, writeVars, commVars, proxy>>

\* S3Helper::putObject(key, buf, offset) for a buffer of size bytes, up to its
\* request.  assert(offset == 0) aborts the process in a build with assertions
\* and is no code at all in a build with NDEBUG (ndebug).
PutObjectStart(offset, size, ndebug) ==
    /\ call.pc = "idle"
    /\ LET c == [NoCall EXCEPT !.op = "putObject",
                               !.arg = [offset |-> offset, size |-> size,
                                        ndebug |-> ndebug],
                               !.loc = [calls |-> 0, incs |-> 0, outcome |-> "-",
                                        puts |-> 0, ret |-> <<>>]]
       IN  call' = IF offset # 0 /\ ~ndebug
                   THEN [c EXCEPT !.pc = "done", !.res = "SIGABRT"]
                   ELSE [c EXCEPT !.pc = "request"]
    /\ UNCHANGED <<posixVars, symlinks, writeVars, commVars, proxy>>

\* one PutObject request of the retry loop, and what follows when the loop
\* ends: throwOnError, then the size of the buffer is returned
PutObjectRequest ==
    /\ call.op = "putObject"
    /\ call.pc = "request"
    /\ \E outcome \in {"SUCCESS"} \cup S3Errors :
          LET l == [S3Attempt(call.loc, outcome) EXCEPT !.puts = @ + 1]
              code == getReturnCode(outcome)
          IN  call' =
                IF RetryAgain(S3RetryCondition(outcome), l.calls)
                THEN [call EXCEPT !.loc = l]
                ELSE IF code # "SUCCESS_CODE"
                THEN CallDone(code, l)
                ELSE CallDone(code, [l EXCEPT !.ret = <<call.arg.size>>])
    /\ UNCHANGED <<posixVars, symlinks, writeVars, commVars, proxy>>

\* S3Helper::deleteObjects(keys) for a list of n keys, up to its loop
DeleteObjectsStart(n) ==
    /\ call.pc = "idle"
    /\ LET c == [NoCall EXCEPT !.op = "deleteObjects", !.arg = [n |-> n],
                               !.loc = [calls |-> 0, incs |-> 0, outcome |-> "-",
                                        offset |-> 0, requests |-> <<>>]]
       IN  call' = IF n = 0 THEN [c EXCEPT !.pc = "done", !.res = "SUCCESS_CODE"]
                   ELSE [c EXCEPT !.pc = "request"]
    /\ UNCHANGED <<posixVars, symlinks, writeVars, commVars, proxy>>

\* the keys put into the request of the batch at offset: the places of the key
\* list from keys.begin() to keys.begin() + batchSize
DeleteBatch(n, offset) ==
    LET batchSize == Min(n - offset, MAX_DELETE_OBJECTS)
    IN  [from |-> 0, to |-> batchSize]

\* one DeleteObjects request of the retry loop of the batch at offset, and what
\* follows when the loop ends: throwOnError, then the next batch
DeleteObjectsRequest ==
    /\ call.op = "deleteObjects"
    /\ call.pc = "request"
    /\ \E outcome \in {"SUCCESS"} \cup S3Errors :
          LET l == S3Attempt(call.loc, outcome)
              code == getReturnCode(outcome)
              sent == [l EXCEPT !.requests =
                          Append(@, DeleteBatch(call.arg.n, l.offset))]
              next == [sent EXCEPT !.offset = @ + MAX_DELETE_OBJECTS, !.calls = 0,
                                   !.incs = 0]
          IN  call' =
                IF RetryAgain(S3RetryCondition(outcome), l.calls)
                THEN [call EXCEPT !.loc = l]
                ELSE IF code # "SUCCESS_CODE"
                THEN CallDone(code, sent)
                ELSE IF next.offset < call.arg.n
                THEN [call EXCEPT !.loc = next]
                ELSE CallDone(code, sent)
    /\ UNCHANGED <<posixVars, symlinks, writeVars, commVars, proxy>>

\* the caller takes the result of the call
CallReturn ==
    /\ call.pc = "done"
    /\ call' = NoCall
    /\ UNCHANGED <<posixVars, symlinks, writeVars, commVars, proxy>>

CallInit ==
    /\ m_uid \in HelperUids
    /\ m_gid \in HelperGids
    /\ caps \in {{"setuid", "setgid"}, {}}
    /\ fsuid = [t \in Threads |-> ProcCred.uid]
    /\ fsgid = [t \in Threads |-> ProcCred.gid]
    /\ errno = [t \in Threads |-> "?"]
    /\ handle = "none"
    /\ m_needsRelease = FALSE
    /\ fd = "unused"
    /\ closeLog = [calls |-> 0, transient |-> 0, oks |-> 0]
    /\ releaseLog = <<>>
    /\ dtor = "-"
    /\ queue = <<>>
    /\ task = [w \in Workers |-> IdleTask]
    /\ call = NoCall
    /\ symlinks = NoLinks
    /\ filePos = 0
    /\ wr = [w \in Workers |-> NoWrite]
    /\ CommIdle
    /\ proxy = NoProxy

CallNext ==
    \/ \E dir \in DirStreams, offset \in WideArgs, count \in WideArgs :
          ReaddirStart(dir, offset, count)
    \/ ReaddirLoop
    \/ \E size \in 0..MaxSize, m_timeout \in 1..MaxDelay, elapsed \in 0..MaxDelay :
          Read(size, m_timeout, elapsed)
    \/ \E offset \in 0..1, size \in 0..MaxSize : GetObjectStart(offset, size)
    \/ GetObjectRequest
    \/ \E offset \in 0..1, size \in 0..MaxSize, ndebug \in BOOLEAN :
          PutObjectStart(offset, size, ndebug)
    \/ PutObjectRequest
    \/ \E n \in KeyCounts : DeleteObjectsStart(n)
    \/ DeleteObjectsRequest
    \/ CallReturn

SpecCall == CallInit /\ [][CallNext]_vars

\* the calls that make and read symbolic links, one at a time
LinkNext ==
    \/ \E from \in FileIds, to \in FileIds : Symlink(from, to)
    \/ \E fileId \in FileIds : Readlink(fileId)
    \/ CallReturn

SpecLink == CallInit /\ [][LinkNext]_vars

\* ---------------------------------------------------------------- region

\* the pieces a hostname is made of, at most
MaxPieces == 2

\* strings are sequences of characters here, so that a substring is found by
\* looking for it. The list of region tags of getRegion, in its order
regions ==
    <<<<"u", "s", "-", "e", "a", "s", "t", "-", "2">>,
      <<"u", "s", "-", "e", "a", "s", "t", "-", "1">>,
      <<"u", "s", "-", "w", "e", "s", "t", "-", "1">>,
      <<"u", "s", "-", "w", "e", "s", "t", "-", "2">>,
      <<"c", "a", "-", "c", "e", "n", "t", "r", "a", "l", "-", "1">>,
      <<"a", "p", "-", "s", "o", "u", "t", "h", "-", "1">>,
      <<"a", "p", "-", "n", "o", "r", "t", "h", "e", "a", "s", "t", "-", "2">>,
      <<"a", "p", "-", "s", "o", "u", "t", "h", "e", "a", "s", "t", "-", "1">>,
      <<"a", "p", "-", "s", "o", "u", "t", "h", "e", "a", "s", "t", "-", "2">>,
      <<"a", "p", "-", "n", "o", "r", "t", "h", "e", "a", "s", "t", "-", "1">>,
      <<"e", "u", "-", "c", "e", "n", "t", "r", "a", "l", "-", "1">>,
      <<"e", "u", "-", "w", "e", "s", "t", "-", "1">>,
      <<"e", "u", "-", "w", "e", "s", "t", "-", "2">>,
      <<"s", "a", "-", "e", "a", "s", "t", "-", "1">>>>

\* the region returned when no tag occurs in the hostname: "us-east-1"
DefaultRegion == regions[2]

\* pieces of hostnames besides the tags: prefixes, a suffix, and fragments of tags
Fragments ==
    {<<"s", "3", ".">>,
     <<"s", "3", "-">>,
     <<".", "a", "m", "a", "z", "o", "n", "a", "w", "s", ".", "c", "o", "m">>,
     <<"u", "s", "-", "e", "a", "s", "t", "-">>,
     <<"1">>,
     <<"2">>,
     <<"e", "u">>}

RangeOf(seq) == {seq[i] : i \in 1..Len(seq)}

RECURSIVE Flatten(_)
\* the concatenation of a sequence of strings
Flatten(ps) == IF ps = <<>> THEN <<>> ELSE Head(ps) \o Flatten(Tail(ps))

\* the hostnames a helper is constructed with
Hostnames ==
    {Flatten(ps) : ps \in UNION {[1..k -> RangeOf(regions) \cup Fragments] :
                                     k \in 0..MaxPieces}}

\* folly::fbstring::npos
npos == -1

\* folly::fbstring::find: the first position (from 0) at which sub occurs in
\* str, or npos
find(str, sub) ==
    LET at == {i \in 0..(Len(str) - Len(sub)) :
                  SubSeq(str, i + 1, i + Len(sub)) = sub}
    IN  IF at = {} THEN npos ELSE CHOOSE i \in at : \A j \in at : i <= j

\* a getRegion that returns the tag occurring first in the hostname
getRegionByPosition(hostname) ==
    LET occ == {i \in 1..Len(regions) : find(hostname, regions[i]) # npos}
    IN  IF occ = {} THEN DefaultRegion
        ELSE regions[CHOOSE i \in occ : \A j \in occ :
                        find(hostname, regions[i]) <= find(hostname, regions[j])]

RECURSIVE RegionFrom(_, _)
\* the loop of getRegion from the i-th tag on
RegionFrom(hostname, i) ==
    IF i > Len(regions) THEN DefaultRegion
    ELSE IF find(hostname, regions[i]) # npos THEN regions[i]
    ELSE RegionFrom(hostname, i + 1)

\* S3Helper::getRegion
getRegion(hostname) == RegionFrom(hostname, 1)

\* a helper is constructed for hostname: its region is looked up
GetRegion(hostname) ==
    /\ call.pc = "idle"
    /\ call' = [NoCall EXCEPT !.op = "getRegion", !.pc = "done",
                              !.arg = [hostname |-> hostname],
                              !.res = getRegion(hostname)]
    /\ UNCHANGED <<posixVars, symlinks, writeVars, commVars, proxy>>

\* region lookups, one at a time
RegionNext ==
    \/ \E hostname \in Hostnames : GetRegion(hostname)
    \/ CallReturn

SpecRegion == CallInit /\ [][RegionNext]_vars

\* ---------------------------------------------------------------- communicate

\* the timeout of receiveMessage, in ticks of the clock
MaxTimeout == 2
\* the most retries a caller gives to communicate
MaxCommRetry == 1

\* the largest int32_t, at the width of the model
MaxMsgId == 2 ^ (IntBits - 1) - 1

\* a counter that is incremented and nothing else
getMsgIdNoSkip(cur) == ToInt(cur + 1)

\* CommunicationHandler::getMsgId, under m_msgIdMutex: the value of
\* m_currentMsgId after ++m_currentMsgId (an increment past the largest value
\* wraps to the smallest) and the skipping of zero and negative values; it is
\* also the value returned
getMsgId(cur) ==
    LET next == ToInt(cur + 1)
    IN  IF next <= 0 THEN 1 ELSE next

\* answer statuses: VOK, the VEIO that communicate sets, and one more that a
\* peer answers with
PeerStatuses == {"VOK", "VEACCES"}

\* the most entries of the inbox that no caller waits for
MaxStale == 1

\* the ids some caller waits for in receiveMessage
Awaited == {comm[t].msgId : t \in {u \in CommThreads : comm[u].pc = "wait"}}

\* the message ids of incoming messages: a push, the ids awaited, the ids of
\* the entries of the inbox and, while the inbox has fewer than MaxStale
\* entries nobody waits for, zero and the ids the callers used last
IncomingIds ==
    {-1} \cup Awaited \cup DOMAIN m_incomingMessages \cup
        (IF Cardinality(DOMAIN m_incomingMessages \ Awaited) < MaxStale
         THEN {0} \cup {comm[t].msgId : t \in CommThreads}
         ELSE {})

\* a test that takes zero for a push as well
IsPushOrZero(message_id) == message_id <= 0

\* onMessage: answer.message_id() < 0 marks a PUSH message
IsPush(message_id) == message_id < 0

\* the entry with the smallest id, whoever waits for it
InboxTakeFirst(inbox, msgId) ==
    LET k == CHOOSE i \in DOMAIN inbox : \A j \in DOMAIN inbox : i <= j
    IN  [answer |-> inbox[k], rest |-> [i \in DOMAIN inbox \ {k} |-> inbox[i]]]

\* receiveMessage once the entry is there: the answer parsed from
\* m_incomingMessages[msgId], and the inbox after the erase
InboxTake(inbox, msgId) ==
    [answer |-> inbox[msgId], rest |-> [i \in DOMAIN inbox \ {msgId} |-> inbox[i]]]

\* onMessage stores the payload under the id of the message
InboxPut(inbox, msg) ==
    [i \in DOMAIN inbox \cup {msg.message_id} |->
        IF i = msg.message_id THEN msg ELSE inbox[i]]

\* CommunicationHandler::setPushCallback
SetPushCallback(cb) ==
    /\ m_pushCallback # cb
    /\ m_pushCallback' = cb
    /\ event' = NoEvent
    /\ UNCHANGED <<m_currentMsgId, m_incomingMessages, m_connectStatus, comm>>
    /\ UNCHANGED <<posixVars, callVars, writeVars, conn, proxy>>

\* what openConnection leaves as the status when it has to connect: CONNECTED
\* after onOpen, HANDSHAKE_ERROR after onFail, TIMEOUT when neither came
OpenOutcomes == {"CONNECTED", "TIMEOUT", "HANDSHAKE_ERROR"}

\* the id counter after openConnection: once connected, sendHandshakeACK and,
\* for a push channel, registerPushChannel each run communicate(msg, 0), which
\* takes an id (their waits and answers are not followed here)
AfterHandshake(cur, status, pushChannel) ==
    IF status # "CONNECTED" THEN cur
    ELSE IF pushChannel THEN getMsgId(getMsgId(cur))
    ELSE getMsgId(cur)

\* openConnection called by the owner of the handler
OpenConnection ==
    /\ m_connectStatus # "CONNECTED"
    /\ \E o \in OpenOutcomes, pushChannel \in {FALSE, m_pushCallback} :
          /\ m_connectStatus' = o
          /\ m_currentMsgId' = AfterHandshake(m_currentMsgId, o, pushChannel)
    /\ event' = NoEvent
    /\ UNCHANGED <<m_incomingMessages, m_pushCallback, comm>>
    /\ UNCHANGED <<posixVars, callVars, writeVars, conn, proxy>>

\* onClose, run by the worker thread of the endpoint
OnClose ==
    /\ m_connectStatus = "CONNECTED"
    /\ m_connectStatus' = "CLOSED"
    /\ event' = NoEvent
    /\ UNCHANGED <<m_currentMsgId, m_incomingMessages, m_pushCallback, comm>>
    /\ UNCHANGED <<posixVars, callVars, writeVars, conn, proxy>>

\* a caller enters communicate(msg, retry): unsigned int msgId = getMsgId()
Communicate(t, retry) ==
    /\ comm[t].pc = "idle"
    /\ m_currentMsgId' = getMsgId(m_currentMsgId)
    /\ comm' = [comm EXCEPT ![t] =
                  [NoComm EXCEPT !.pc = "send", !.arg = retry, !.retry = retry,
                                 !.msgId = getMsgId(m_currentMsgId)]]
    /\ event' = NoEvent
    /\ UNCHANGED <<m_incomingMessages, m_connectStatus, m_pushCallback>>
    /\ UNCHANGED <<posixVars, callVars, writeVars, conn, proxy>>

\* sendMessage(msg, msgId): not connected, or the endpoint's send with its
\* error code ec
SendMessage(t) ==
    /\ comm[t].pc = "send"
    /\ \E ec \in {0, 1} :
          LET sent == m_connectStatus = "CONNECTED"
              c == [comm[t] EXCEPT !.sends = @ + 1]
          IN  comm' = [comm EXCEPT ![t] =
                          IF sent /\ ec = 0
                          THEN [c EXCEPT !.pc = "wait", !.timer = MaxTimeout]
                          ELSE [c EXCEPT !.pc = "sendFailed"]]
    /\ event' = NoEvent
    /\ UNCHANGED <<m_currentMsgId, m_incomingMessages, m_connectStatus, m_pushCallback>>
    /\ UNCHANGED <<posixVars, callVars, writeVars, conn, proxy>>

\* the end of communicate: an answer that is not VOK goes to the push
\* callback, when one is set (callback); then the answer is returned
Dispatched(c, answer) ==
    [c EXCEPT !.pc = "done", !.answer = answer, !.callback = m_pushCallback,
              !.dispatched = answer.answer_status # "VOK" /\ m_pushCallback]

\* receiveMessage finds the entry of msgId in the inbox, and communicate ends
ReceiveMessage(t) ==
    /\ comm[t].pc = "wait"
    /\ comm[t].msgId \in DOMAIN m_incomingMessages
    /\ LET took == InboxTake(m_incomingMessages, comm[t].msgId)
       IN  /\ m_incomingMessages' = took.rest
           /\ comm' = [comm EXCEPT ![t] = Dispatched(comm[t], took.answer)]
    /\ event' = NoEvent
    /\ UNCHANGED <<m_currentMsgId, m_connectStatus, m_pushCallback>>
    /\ UNCHANGED <<posixVars, callVars, writeVars, conn, proxy>>

\* time passes for a caller in timed_wait
Tick(t) ==
    /\ comm[t].pc = "wait"
    /\ comm[t].msgId \notin DOMAIN m_incomingMessages
    /\ comm[t].timer > 0
    /\ comm' = [comm EXCEPT ![t].timer = @ - 1]
    /\ event' = NoEvent
    /\ UNCHANGED <<m_currentMsgId, m_incomingMessages, m_connectStatus, m_pushCallback>>
    /\ UNCHANGED <<posixVars, callVars, writeVars, conn, proxy>>

\* timed_wait returns false: receiveMessage returns -1
ReceiveTimeout(t) ==
    /\ comm[t].pc = "wait"
    /\ comm[t].msgId \notin DOMAIN m_incomingMessages
    /\ comm[t].timer = 0
    /\ comm' = [comm EXCEPT ![t].pc = "receiveFailed"]
    /\ event' = NoEvent
    /\ UNCHANGED <<m_currentMsgId, m_incomingMessages, m_connectStatus, m_pushCallback>>
    /\ UNCHANGED <<posixVars, callVars, writeVars, conn, proxy>>

\* communicate after a failed sendMessage or receiveMessage: with retries
\* left, closeConnection and openConnection, and the recursive call (with its
\* getMsgId) when the connection is open again; else VEIO, which is returned
\* at once after a failed send
Reconnect(t) ==
    /\ comm[t].pc \in {"sendFailed", "receiveFailed"}
    /\ \E o \in OpenOutcomes, pushChannel \in {FALSE, m_pushCallback} :
          LET c == comm[t]
              VEIO == [NoAnswer EXCEPT !.answer_status = "VEIO"]
              f == [c EXCEPT !.failed = c.pc]
              veio == IF c.pc = "sendFailed"
                      THEN [f EXCEPT !.pc = "done", !.answer = VEIO,
                                     !.callback = m_pushCallback]
                      ELSE Dispatched(f, VEIO)
              id == AfterHandshake(m_currentMsgId, o, pushChannel)
          IN  IF c.retry > 0
              THEN /\ m_connectStatus' = o
                   /\ m_currentMsgId' = IF o = "CONNECTED" THEN getMsgId(id) ELSE id
                   /\ comm' = [comm EXCEPT ![t] =
                                 IF o = "CONNECTED"
                                 THEN [c EXCEPT !.pc = "send", !.retry = @ - 1,
                                                !.msgId = getMsgId(id)]
                                 ELSE veio]
              ELSE /\ comm' = [comm EXCEPT ![t] = veio]
                   /\ UNCHANGED <<m_connectStatus, m_currentMsgId>>
    /\ event' = NoEvent
    /\ UNCHANGED <<m_incomingMessages, m_pushCallback>>
    /\ UNCHANGED <<posixVars, callVars, writeVars, conn, proxy>>

\* the caller has the answer
CommunicateReturn(t) ==
    /\ comm[t].pc = "done"
    /\ comm' = [comm EXCEPT ![t] = [NoComm EXCEPT !.msgId = comm[t].msgId]]
    /\ event' = NoEvent
    /\ UNCHANGED <<m_currentMsgId, m_incomingMessages, m_connectStatus, m_pushCallback>>
    /\ UNCHANGED <<posixVars, callVars, writeVars, conn, proxy>>

\* the callers that wait in receiveMessage for an id other than message_id:
\* notify_all wakes them, they find no entry and wait again
Rewaiting(message_id) ==
    {t \in CommThreads :
        comm[t].pc = "wait" /\ comm[t].msgId # message_id /\ comm[t].timer > 0}

\* onMessage, run by the worker thread of the endpoint, for a payload that
\* parses (parsed) to an Answer with this id and status.  A caller woken by
\* notify_all that finds no entry for its id calls timed_wait again with the
\* whole timeout.
OnMessage(parsed, message_id, answer_status) ==
    /\ m_connectStatus = "CONNECTED"
    /\ LET msg == [message_id |-> message_id, answer_status |-> answer_status]
           e == [act |-> "onMessage", message_id |-> message_id, to |-> "-"]
       IN  IF ~parsed
           THEN /\ event' = [e EXCEPT !.to = "ignored"]
                /\ UNCHANGED <<m_incomingMessages, comm>>
           ELSE IF IsPush(message_id)
           THEN /\ event' = [e EXCEPT !.to = IF m_pushCallback THEN "callback"
                                              ELSE "dropped"]
                /\ UNCHANGED <<m_incomingMessages, comm>>
           ELSE /\ event' = [e EXCEPT !.to = "inbox"]
                /\ m_incomingMessages' = InboxPut(m_incomingMessages, msg)
                /\ comm' = [t \in CommThreads |->
                              IF t \in Rewaiting(message_id)
                              THEN [comm[t] EXCEPT !.timer = MaxTimeout]
                              ELSE comm[t]]
    /\ UNCHANGED <<m_currentMsgId, m_connectStatus, m_pushCallback>>
    /\ UNCHANGED <<posixVars, callVars, writeVars, conn, proxy>>

\* the steps of a caller thread
CommStep(t) ==
    \/ SendMessage(t)
    \/ ReceiveMessage(t)
    \/ Tick(t)
    \/ ReceiveTimeout(t)
    \/ Reconnect(t)
    \/ CommunicateReturn(t)

\* the thread that calls communicate in SpecComm
CommCaller == 1

CommNext ==
    \/ \E cb \in BOOLEAN : SetPushCallback(cb)
    \/ OpenConnection
    \/ OnClose
    \/ \E retry \in 0..MaxCommRetry : Communicate(CommCaller, retry)
    \/ CommStep(CommCaller)
    \/ \E parsed \in BOOLEAN, message_id \in IncomingIds, answer_status \in PeerStatuses :
          OnMessage(parsed, message_id, answer_status)

\* one caller, the owner of the handler and the worker thread of the endpoint.
\* The caller takes its steps; the messages that come in are the peer's.
SpecComm ==
    /\ Init
    /\ [][CommNext]_vars
    /\ WF_vars(CommStep(CommCaller))

PairNext ==
    \/ OpenConnection
    \/ OnClose
    \/ \E t \in CommThreads : Communicate(t, 0)
    \/ \E t \in CommThreads : CommStep(t)
    \/ \E message_id \in IncomingIds, answer_status \in PeerStatuses :
          OnMessage(TRUE, message_id, answer_status)

\* two callers in communicate at once, without retries
SpecPair == Init /\ [][PairNext]_vars

\* ---------------------------------------------------------------- connection

\* the value of a status as the int that openConnection and sendMessage
\* return: CONNECTED is 0 (openConnection tests m_connectStatus == 0), every
\* other status is not
StatusValueTimeoutOk(status) ==
    IF status \in {"CONNECTED", "TIMEOUT"} THEN "0" ELSE status

StatusValue(status) == IF status = "CONNECTED" THEN "0" ELSE status

\* what a step of the connection did: the function or handler, what it
\* returned, and whether it made its request (sendMessage: the endpoint's send
\* was called and took the message; enablePushChannel and openConnection:
\* registerPushChannel was called; disablePushChannel: closePushChannel)
ConnEvent(act, ret, did) == [act |-> act, ret |-> ret, did |-> did]

\* the handlers of the endpoint that take m_connectMutex
Handlers == {"onOpen", "onClose", "onFail", "onInterrupt"}

\* the status a handler sets
HandlerStatus(h) ==
    CASE h = "onOpen"  -> "CONNECTED"
      [] h = "onClose" -> "CLOSED"
      [] h = "onFail"  -> "HANDSHAKE_ERROR"
      [] OTHER         -> "TRANSPORT_ERROR"

\* the handlers the endpoint can invoke, by the state of the connection
Invocable(link) ==
    CASE link = "connecting" -> {"onOpen", "onFail"}
      [] link = "open"       -> {"onClose", "onInterrupt"}
      [] OTHER               -> {}

\* the connection after a handler
LinkAfter(h, link) ==
    CASE h = "onOpen"      -> "open"
      [] h = "onInterrupt" -> link
      [] OTHER             -> "closed"

\* CommunicationHandler::setFuseID
SetFuseID(nonEmpty) ==
    /\ conn.pc = "idle"
    /\ conn.m_fuseID # nonEmpty
    /\ conn' = [conn EXCEPT !.m_fuseID = nonEmpty]
    /\ event' = ConnEvent("setFuseID", "-", FALSE)
    /\ UNCHANGED <<m_currentMsgId, m_incomingMessages, m_connectStatus,
                   m_pushCallback, comm>>
    /\ UNCHANGED <<posixVars, callVars, writeVars, proxy>>

\* setPushCallback called between the other calls of the caller
ConnSetPushCallback(cb) ==
    /\ conn.pc = "idle"
    /\ m_pushCallback # cb
    /\ m_pushCallback' = cb
    /\ event' = ConnEvent("setPushCallback", "-", FALSE)
    /\ UNCHANGED <<m_currentMsgId, m_incomingMessages, m_connectStatus, comm, conn>>
    /\ UNCHANGED <<posixVars, callVars, writeVars, proxy>>

\* an enablePushChannel that registers whenever it can
EnableRegistersAgain(isPushChannel, status, callback) ==
    status = "CONNECTED" /\ callback

\* enablePushChannel: whether registerPushChannel is called
EnableRegisters(isPushChannel, status, callback) ==
    ~isPushChannel /\ status = "CONNECTED" /\ callback

\* disablePushChannel: whether closePushChannel is called
DisableCloses(isPushChannel, status) == isPushChannel /\ status = "CONNECTED"

\* openConnection after its wait: whether registerPushChannel is called
OpenRegisters(status, isPushChannel, callback, fuseID) ==
    StatusValue(status) = "0" /\ isPushChannel /\ callback /\ fuseID

\* CommunicationHandler::enablePushChannel; registerPushChannel runs
\* communicate(msg, 0), which takes an id
EnablePushChannel ==
    /\ conn.pc = "idle"
    /\ LET registers == EnableRegisters(conn.m_isPushChannel, m_connectStatus,
                                        m_pushCallback)
       IN  /\ conn' = [conn EXCEPT !.m_isPushChannel = TRUE]
           /\ m_currentMsgId' = IF registers THEN getMsgId(m_currentMsgId)
                                ELSE m_currentMsgId
           /\ event' = ConnEvent("enablePushChannel", "-", registers)
    /\ UNCHANGED <<m_incomingMessages, m_connectStatus, m_pushCallback, comm>>
    /\ UNCHANGED <<posixVars, callVars, writeVars, proxy>>

\* CommunicationHandler::disablePushChannel; closePushChannel runs
\* communicate(msg, 0)
DisablePushChannel ==
    /\ conn.pc = "idle"
    /\ LET closes == DisableCloses(conn.m_isPushChannel, m_connectStatus)
       IN  /\ conn' = [conn EXCEPT !.m_isPushChannel = FALSE]
           /\ m_currentMsgId' = IF closes THEN getMsgId(m_currentMsgId)
                                ELSE m_currentMsgId
           /\ event' = ConnEvent("disablePushChannel", "-", closes)
    /\ UNCHANGED <<m_incomingMessages, m_connectStatus, m_pushCallback, comm>>
    /\ UNCHANGED <<posixVars, callVars, writeVars, proxy>>

\* openConnection takes m_connectMutex: connected, it returns 0; else the
\* status is TIMEOUT and, when there is an endpoint, it is stopped and the
\* worker threads are joined
OpenConnectionEnter ==
    /\ conn.pc = "idle"
    /\ conn.m_connectMutex = "-"
    /\ IF m_connectStatus = "CONNECTED"
       THEN /\ event' = ConnEvent("openConnection", "0", FALSE)
            /\ UNCHANGED <<m_connectStatus, conn>>
       ELSE /\ m_connectStatus' = "TIMEOUT"
            /\ event' = ConnEvent("openConnection:enter", "-", FALSE)
            /\ conn' = IF conn.m_endpoint
                       THEN [conn EXCEPT !.pc = "openJoin", !.m_connectMutex = "caller",
                                         !.stopped = TRUE]
                       ELSE [conn EXCEPT !.pc = "openInit", !.m_connectMutex = "caller"]
    /\ UNCHANGED <<m_currentMsgId, m_incomingMessages, m_pushCallback, comm>>
    /\ UNCHANGED <<posixVars, callVars, writeVars, proxy>>

\* m_worker1.join() in openConnection (m_worker2 is never started)
OpenConnectionJoin ==
    /\ conn.pc = "openJoin"
    /\ conn.m_worker1 \in {"none", "exited"}
    /\ conn' = [conn EXCEPT !.pc = "openInit", !.m_worker1 = "none"]
    /\ event' = ConnEvent("openConnection:join", "-", FALSE)
    /\ UNCHANGED <<m_currentMsgId, m_incomingMessages, m_connectStatus,
                   m_pushCallback, comm>>
    /\ UNCHANGED <<posixVars, callVars, writeVars, proxy>>

\* openConnection makes the endpoint: init_asio fails (it returns the
\* status), get_connection fails (it returns ec.value()), or the connection
\* is started, the worker thread is started and the caller waits on
\* m_connectCond, which releases the mutex
OpenConnectionInit ==
    /\ conn.pc = "openInit"
    /\ \E failure \in {"-", "init_asio", "get_connection"} :
          LET c == [conn EXCEPT !.m_endpoint = TRUE, !.stopped = FALSE,
                                !.link = "closed", !.m_connectMutex = "-"]
          IN  CASE failure = "init_asio" ->
                      /\ conn' = [c EXCEPT !.pc = "idle"]
                      /\ event' = ConnEvent("openConnection",
                                            StatusValue(m_connectStatus), FALSE)
                [] failure = "get_connection" ->
                      /\ conn' = [c EXCEPT !.pc = "idle"]
                      /\ event' = ConnEvent("openConnection", "ec", FALSE)
                [] OTHER ->
                      /\ conn' = [c EXCEPT !.pc = "openWait", !.link = "connecting",
                                           !.m_worker1 = "run"]
                      /\ event' = ConnEvent("openConnection:wait", "-", FALSE)
    /\ UNCHANGED <<m_currentMsgId, m_incomingMessages, m_connectStatus,
                   m_pushCallback, comm>>
    /\ UNCHANGED <<posixVars, callVars, writeVars, proxy>>

\* timed_wait returns in openConnection (notified, timed out or woken for no
\* reason) with the mutex taken again; then sendHandshakeACK and
\* registerPushChannel when the status is 0, and the status is returned
OpenConnectionReturn ==
    /\ conn.pc = "openWait"
    /\ conn.m_connectMutex = "-"
    /\ LET registers == OpenRegisters(m_connectStatus, conn.m_isPushChannel,
                                      m_pushCallback, conn.m_fuseID)
       IN  /\ m_currentMsgId' = AfterHandshake(m_currentMsgId, m_connectStatus, registers)
           /\ event' = ConnEvent("openConnection", StatusValue(m_connectStatus),
                                 registers)
    /\ conn' = [conn EXCEPT !.pc = "idle"]
    /\ UNCHANGED <<m_incomingMessages, m_connectStatus, m_pushCallback, comm>>
    /\ UNCHANGED <<posixVars, callVars, writeVars, proxy>>

\* closeConnection takes m_connectMutex: closed, it returns; else it asks the
\* endpoint to close the connection and, when that gave no error (ec), waits
\* on m_connectCond, which releases the mutex; with an error it goes on to
\* stop the endpoint and to close the socket
CloseConnectionEnter ==
    /\ conn.pc = "idle"
    /\ conn.m_connectMutex = "-"
    /\ IF m_connectStatus = "CLOSED"
       THEN /\ event' = ConnEvent("closeConnection", "-", FALSE)
            /\ conn' = conn
       ELSE \E ec \in {0, 1} :
               /\ event' = ConnEvent("closeConnection:enter", "-", FALSE)
               /\ conn' = IF conn.m_endpoint /\ ec = 0
                          THEN [conn EXCEPT !.pc = "closeWait"]
                          ELSE [conn EXCEPT !.pc = "closeJoin",
                                            !.m_connectMutex = "caller",
                                            !.stopped = conn.m_endpoint,
                                            !.link = "closed"]
    /\ UNCHANGED <<m_currentMsgId, m_incomingMessages, m_connectStatus,
                   m_pushCallback, comm>>
    /\ UNCHANGED <<posixVars, callVars, writeVars, proxy>>

\* timed_wait returns in closeConnection with the mutex taken again; the
\* endpoint is stopped and the socket closed
CloseConnectionWake ==
    /\ conn.pc = "closeWait"
    /\ conn.m_connectMutex = "-"
    /\ conn' = [conn EXCEPT !.pc = "closeJoin", !.m_connectMutex = "caller",
                            !.stopped = TRUE, !.link = "closed"]
    /\ event' = ConnEvent("closeConnection:wake", "-", FALSE)
    /\ UNCHANGED <<m_currentMsgId, m_incomingMessages, m_connectStatus,
                   m_pushCallback, comm>>
    /\ UNCHANGED <<posixVars, callVars, writeVars, proxy>>

\* m_worker1.join() in closeConnection, with the mutex held; then the status
\* is CLOSED and closeConnection returns
CloseConnectionJoin ==
    /\ conn.pc = "closeJoin"
    /\ conn.m_worker1 \in {"none", "exited"}
    /\ conn' = [conn EXCEPT !.pc = "idle", !.m_worker1 = "none",
                            !.m_connectMutex = "-"]
    /\ m_connectStatus' = "CLOSED"
    /\ event' = ConnEvent("closeConnection", "-", FALSE)
    /\ UNCHANGED <<m_currentMsgId, m_incomingMessages, m_pushCallback, comm>>
    /\ UNCHANGED <<posixVars, callVars, writeVars, proxy>>

\* sendMessage reads m_connectStatus (no mutex is taken): connected, it calls
\* the endpoint's send and returns its error code; else it goes on to return
\* the status
ConnSendMessage ==
    /\ conn.pc = "idle"
    /\ IF m_connectStatus = "CONNECTED"
       THEN /\ \E ec \in {"0", "ec"} : event' = ConnEvent("sendMessage", ec, ec = "0")
            /\ conn' = conn
       ELSE /\ event' = ConnEvent("sendMessage:notConnected", "-", FALSE)
            /\ conn' = [conn EXCEPT !.pc = "sendReturn", !.seen = m_connectStatus]
    /\ UNCHANGED <<m_currentMsgId, m_incomingMessages, m_connectStatus,
                   m_pushCallback, comm>>
    /\ UNCHANGED <<posixVars, callVars, writeVars, proxy>>

\* return m_connectStatus in sendMessage: the member is read without the
\* mutex while the worker thread may write it, so the value returned is the
\* one tested or the one the member has now
ConnSendMessageReturn ==
    /\ conn.pc = "sendReturn"
    /\ \E status \in {conn.seen, m_connectStatus} :
          event' = ConnEvent("sendMessage", StatusValue(status), FALSE)
    /\ conn' = [conn EXCEPT !.pc = "idle", !.seen = "-"]
    /\ UNCHANGED <<m_currentMsgId, m_incomingMessages, m_connectStatus,
                   m_pushCallback, comm>>
    /\ UNCHANGED <<posixVars, callVars, writeVars, proxy>>

\* the worker thread, in ws_client::run, enters a handler: its next statement
\* takes m_connectMutex
HandlerInvoked(h) ==
    /\ conn.m_worker1 = "run"
    /\ ~conn.stopped
    /\ h \in Invocable(conn.link)
    /\ conn' = [conn EXCEPT !.m_worker1 = h, !.link = LinkAfter(h, conn.link)]
    /\ event' = ConnEvent("invoked", "-", FALSE)
    /\ UNCHANGED <<m_currentMsgId, m_incomingMessages, m_connectStatus,
                   m_pushCallback, comm>>
    /\ UNCHANGED <<posixVars, callVars, writeVars, proxy>>

\* onOpen, onClose, onFail, onInterrupt: with the mutex the status is set
\* (and m_connectCond notified, which a waiting caller takes as its wake-up)
HandlerRuns ==
    /\ conn.m_worker1 \in Handlers
    /\ conn.m_connectMutex = "-"
    /\ m_connectStatus' = HandlerStatus(conn.m_worker1)
    /\ conn' = [conn EXCEPT !.m_worker1 = "run"]
    /\ event' = ConnEvent(conn.m_worker1, "-", FALSE)
    /\ UNCHANGED <<m_currentMsgId, m_incomingMessages, m_pushCallback, comm>>
    /\ UNCHANGED <<posixVars, callVars, writeVars, proxy>>

\* ws_client::run returns: the endpoint was stopped, or the connection is
\* gone and there is no work left
WorkerExits ==
    /\ conn.m_worker1 = "run"
    /\ conn.stopped \/ conn.link = "closed"
    /\ conn' = [conn EXCEPT !.m_worker1 = "exited"]
    /\ event' = ConnEvent("exited", "-", FALSE)
    /\ UNCHANGED <<m_currentMsgId, m_incomingMessages, m_connectStatus,
                   m_pushCallback, comm>>
    /\ UNCHANGED <<posixVars, callVars, writeVars, proxy>>

\* the steps with which a call in progress and the worker thread go on
ConnProgress ==
    \/ OpenConnectionJoin
    \/ OpenConnectionInit
    \/ OpenConnectionReturn
    \/ CloseConnectionWake
    \/ CloseConnectionJoin
    \/ ConnSendMessageReturn
    \/ HandlerRuns
    \/ WorkerExits

ConnNext ==
    \/ \E nonEmpty \in BOOLEAN : SetFuseID(nonEmpty)
    \/ \E cb \in BOOLEAN : ConnSetPushCallback(cb)
    \/ EnablePushChannel
    \/ DisablePushChannel
    \/ OpenConnectionEnter
    \/ CloseConnectionEnter
    \/ ConnSendMessage
    \/ \E h \in Handlers : HandlerInvoked(h)
    \/ ConnProgress

\* one caller thread and the worker thread of the endpoint
SpecConn == Init /\ [][ConnNext]_vars

\* ---------------------------------------------------------------- proxy

\* the worker threads of the proxy's io_service
GLUSTERFS_HELPER_WORKER_THREADS == 8

\* the most calls of read and write in progress at once
MaxCalls == 8

\* the calls in progress
InProgress ==
    proxy.openQueued + proxy.opening + proxy.nestedQueued + proxy.nestedRunning
        + proxy.callerQueued + proxy.callerRunning

\* the worker threads that run a task or wait inside one: a call whose
\* continuation waits for its nested task holds one, and a second one while the
\* nested task runs
Busy ==
    proxy.opening + proxy.nestedQueued + 2 * proxy.nestedRunning
        + proxy.callerRunning

\* whether a worker thread is free to take a task from the io_service
WorkerFree == Busy < GLUSTERFS_HELPER_WORKER_THREADS

\* read or write of the proxy, called by a thread of the client: the helper's
\* open puts its task on the executor, and the caller waits in get()
ProxyCall ==
    /\ InProgress < MaxCalls
    /\ proxy' = [proxy EXCEPT !.openQueued = @ + 1]
    /\ UNCHANGED <<posixVars, callVars, writeVars, commVars>>

\* a worker thread takes an open task
OpenStarts ==
    /\ proxy.openQueued > 0
    /\ WorkerFree
    /\ proxy' = [proxy EXCEPT !.openQueued = @ - 1, !.opening = @ + 1]
    /\ UNCHANGED <<posixVars, callVars, writeVars, commVars>>

\* the open task ends and its future has the handle: the continuation given to
\* then() runs, on this worker thread (onWorker) or, when the future was
\* complete before then() was reached, on the caller's. It calls read or write
\* of the handle, which puts the nested task on the executor, and waits for
\* it in get()
OpenCompletes(onWorker) ==
    /\ proxy.opening > 0
    /\ proxy' = IF onWorker
                THEN [proxy EXCEPT !.opening = @ - 1, !.nestedQueued = @ + 1]
                ELSE [proxy EXCEPT !.opening = @ - 1, !.callerQueued = @ + 1]
    /\ UNCHANGED <<posixVars, callVars, writeVars, commVars>>

\* a worker thread takes the nested task of a continuation that waits on a
\* worker thread
NestedStarts ==
    /\ proxy.nestedQueued > 0
    /\ WorkerFree
    /\ proxy' = [proxy EXCEPT !.nestedQueued = @ - 1, !.nestedRunning = @ + 1]
    /\ UNCHANGED <<posixVars, callVars, writeVars, commVars>>

\* the nested task ends: the continuation goes on and returns, and the call
\* returns to the client
NestedCompletes ==
    /\ proxy.nestedRunning > 0
    /\ proxy' = [proxy EXCEPT !.nestedRunning = @ - 1]
    /\ UNCHANGED <<posixVars, callVars, writeVars, commVars>>

\* a worker thread takes the nested task of a continuation that waits on the
\* caller's thread
CallerNestedStarts ==
    /\ proxy.callerQueued > 0
    /\ WorkerFree
    /\ proxy' = [proxy EXCEPT !.callerQueued = @ - 1, !.callerRunning = @ + 1]
    /\ UNCHANGED <<posixVars, callVars, writeVars, commVars>>

CallerNestedCompletes ==
    /\ proxy.callerRunning > 0
    /\ proxy' = [proxy EXCEPT !.callerRunning = @ - 1]
    /\ UNCHANGED <<posixVars, callVars, writeVars, commVars>>

\* the steps of the worker threads
ProxyProgress ==
    \/ OpenStarts
    \/ \E onWorker \in BOOLEAN : OpenCompletes(onWorker)
    \/ NestedStarts
    \/ NestedCompletes
    \/ CallerNestedStarts
    \/ CallerNestedCompletes

ProxyNext ==
    \/ ProxyCall
    \/ ProxyProgress

\* threads of the client calling read and write of one proxy
SpecProxy == Init /\ [][ProxyNext]_vars

\* ---------------------------------------------------------------- write

\* the most iovec entries one writev call takes (limits.h)
IOV_MAX == 1024

\* the conversion of an int to std::size_t (twice as wide as int)
ToSizeT(x) == x % (2 ^ (2 * IntBits))

\* iovec entries of the buffers written: none (an empty buffer), one chunk,
\* two chunks
IovSizes == {0, IOV_MAX, IOV_MAX + 1}

\* offsets written at
WriteOffsets == {0, 2 ^ IntBits}

\* bytes one writev call reports as written (a short write is legal)
ByteCounts == {1, 2 ^ (IntBits - 1) - 1}

\* what the retry of writev ends with: the bytes written, or -1 and an errno
WritevOutcomes ==
    {[n |-> b, err |-> "-"] : b \in ByteCounts}
        \cup {[n |-> -1, err |-> e] : e \in SysErrors("writev")}

\* the future of a write: a byte count (<<n>>) or an error (res, no count)
WriteDone(w, res, ret) == [wr[w] EXCEPT !.pc = "done", !.res = res, !.ret = ret]

\* PosixFileHandle::write on worker w up to its loop: the identity scope, lseek
\* and the empty buffer
WriteStart(w, offset, iov_size) ==
    /\ wr[w].pc = "idle"
    /\ handle = "live"
    /\ \E o \in {"OK"} \cup SysErrors("lseek") :
          LET c == [pc |-> "writev", arg |-> [offset |-> offset, iov_size |-> iov_size],
                    loc |-> [iov_off |-> 0, size |-> 0, chunks |-> <<>>],
                    res |-> "-", ret |-> <<>>]
              valid == CtxValid(UserCtxSetter(w, m_uid, m_gid))
          IN  /\ wr' = [wr EXCEPT ![w] =
                          IF ~valid THEN [c EXCEPT !.pc = "done", !.res = "EDOM"]
                          ELSE IF o # "OK" THEN [c EXCEPT !.pc = "done", !.res = o]
                          ELSE IF iov_size = 0
                          THEN [c EXCEPT !.pc = "done", !.res = "OK", !.ret = <<0>>]
                          ELSE c]
              /\ filePos' = IF valid /\ o = "OK" THEN offset ELSE filePos
    /\ UNCHANGED <<posixVars, callVars, commVars, proxy>>

\* one iteration of the loop of write: the retry of writev for the chunk at
\* iov_off (o: the bytes it reports, or the errno it ended with), stored at the
\* file offset of the descriptor
WritevChunk(w) ==
    /\ wr[w].pc = "writev"
    /\ \E o \in WritevOutcomes :
          LET l == wr[w].loc
              n == Min(IOV_MAX, wr[w].arg.iov_size - l.iov_off)
              chunk == [from |-> l.iov_off, to |-> l.iov_off + n, at |-> filePos,
                        ret |-> o.n]
              size == ToInt(l.size + o.n)
              next == [iov_off |-> l.iov_off + IOV_MAX, size |-> size,
                       chunks |-> Append(l.chunks, chunk)]
          IN  IF o.n = -1
              THEN /\ wr' = [wr EXCEPT ![w] = WriteDone(w, o.err, <<>>)]
                   /\ filePos' = filePos
              ELSE /\ filePos' = filePos + o.n
                   /\ wr' = [wr EXCEPT ![w] =
                               IF next.iov_off < wr[w].arg.iov_size
                               THEN [wr[w] EXCEPT !.loc = next]
                               ELSE [WriteDone(w, "OK", <<ToSizeT(size)>>)
                                       EXCEPT !.loc = next]]
    /\ UNCHANGED <<posixVars, callVars, commVars, proxy>>

\* the caller takes the result of the write
WriteReturn(w) ==
    /\ wr[w].pc = "done"
    /\ wr' = [wr EXCEPT ![w] = NoWrite]
    /\ UNCHANGED <<posixVars, callVars, filePos, commVars, proxy>>

WriteInit ==
    /\ m_uid \in HelperUids
    /\ m_gid \in HelperGids
    /\ caps = {"setuid", "setgid"}
    /\ fsuid = [t \in Threads |-> ProcCred.uid]
    /\ fsgid = [t \in Threads |-> ProcCred.gid]
    /\ errno = [t \in Threads |-> "?"]
    /\ handle = "live"
    /\ m_needsRelease = TRUE
    /\ fd = "open"
    /\ closeLog = [calls |-> 0, transient |-> 0, oks |-> 0]
    /\ releaseLog = <<>>
    /\ dtor = "-"
    /\ queue = <<>>
    /\ task = [w \in Workers |-> IdleTask]
    /\ call = NoCall
    /\ symlinks = NoLinks
    /\ filePos = 0
    /\ wr = [w \in Workers |-> NoWrite]
    /\ CommIdle
    /\ proxy = NoProxy

WriteNext ==
    \/ \E w \in Workers, offset \in WriteOffsets, iov_size \in IovSizes :
          WriteStart(w, offset, iov_size)
    \/ \E w \in Workers : WritevChunk(w)
    \/ \E w \in Workers : WriteReturn(w)

SpecWrite == WriteInit /\ [][WriteNext]_vars

\* ---------------------------------------------------------------- claims

TransientReturned(r) == r \in POSIX_RETRY_ERRORS
OtherErrorReturned(r) == r \notin POSIX_RETRY_ERRORS \cup {"OK", "EOS", "-"}

CloseTasksSubmitted == Cardinality({i \in 1..Len(releaseLog) : releaseLog[i] = "task"})

\* C1 as stated: however release() is called, close() is issued on the
\* descriptor at most once, and every release() after the first returns a ready
\* success without submitting work.
C1_CloseIssuedAtMostOnce ==
    /\ closeLog.calls <= 1
    /\ \A i \in 2..Len(releaseLog) : releaseLog[i] = "ready"

\* C1 amended: at most one close task is ever submitted and every release()
\* after the first returns a ready success without submitting work; close() is
\* issued again only by the retry loop of that task after a close() that failed
\* with a retry error, and it succeeds at most once.
C1_CloseTaskAtMostOnce ==
    /\ CloseTasksSubmitted <= 1
    /\ \A i \in 2..Len(releaseLog) : releaseLog[i] = "ready"
    /\ closeLog.calls <= closeLog.transient + 1
    /\ closeLog.oks <= 1

C1_Witness ==
    /\ Len(releaseLog) = 2
    /\ closeLog.calls = 2
    /\ closeLog.oks = 1

\* C2: over the lifetime of a handle exactly one release is attempted: when
\* release() was never called the destructor takes the flag and (its identity
\* scope being valid) calls close; when release() was called the destructor
\* does neither; the descriptor is never closed twice.
C2_ExactlyOneReleaseAttempt ==
    /\ closeLog.oks <= 1
    /\ handle = "destroyed" =>
          /\ releaseLog = <<>> => dtor \in {"close", "invalid"}
          /\ releaseLog # <<>> => dtor = "skip"
          /\ CloseTasksSubmitted + (IF dtor = "skip" THEN 0 ELSE 1) = 1
          /\ dtor = "close" => closeLog.calls = 1
          /\ dtor = "invalid" => closeLog.calls = 0

C2_Witness ==
    /\ handle = "destroyed"
    /\ releaseLog # <<>>
    /\ closeLog.oks = 1
    /\ dtor = "skip"

C2_WitnessDropped ==
    /\ handle = "destroyed"
    /\ releaseLog = <<>>
    /\ dtor = "close"

\* C3: once the handle is gone (destroyed, no close task pending) the
\* descriptor is closed, whatever the identity switch in release() and in the
\* destructor did (no close() call having failed).
C3_DescriptorClosedWhenGone ==
    (/\ handle = "destroyed"
     /\ Quiet
     /\ closeLog.calls = closeLog.oks) => fd = "closed"

\* C4: a worker that runs no task has the filesystem uid and gid it had before
\* the task: after every task the ids are those at its start, so every task
\* starts under the process's own ids.
C4_IdentityRestored ==
    \A w \in Workers :
        /\ task[w].pc = "done" =>
              /\ fsuid[w] = task[w].entry.uid
              /\ fsgid[w] = task[w].entry.gid
        /\ task[w].pc # "sys" =>
              /\ fsuid[w] = ProcCred.uid
              /\ fsgid[w] = ProcCred.gid

C4_Witness ==
    \E w \in Workers :
        /\ task[w].pc = "done"
        /\ task[w].valid
        /\ task[w].res \notin {"OK", "EDOM"}
        /\ m_gid # NoId
        /\ fsgid[w] = ProcCred.gid

C4_WitnessPartial ==
    \E w \in Workers :
        /\ task[w].pc = "done"
        /\ ~task[w].valid
        /\ caps = {"setuid"}

\* C5: a task whose identity scope was not valid (the thread's ids after the
\* switch are not the requested ones) issues no backend syscall.
C5_NoSyscallWhenInvalid ==
    \A w \in Workers :
        /\ task[w].pc = "sys" => task[w].valid
        /\ task[w].pc = "done" /\ ~task[w].valid => ~task[w].issued

C5_Witness ==
    \E w \in Workers :
        /\ task[w].pc = "done"
        /\ ~task[w].valid
        /\ ~task[w].issued
        /\ task[w].op = "write"

\* C6: an operation whose identity scope was not valid completes with an error
\* of kind PermissionDenied.
C6_PermissionDeniedWhenInvalid ==
    \A w \in Workers :
        task[w].pc = "done" /\ ~task[w].valid =>
            ErrorKind(task[w].res) = "PermissionDenied"

\* C7: a syscall that failed with an error outside the retry errors is not
\* reissued (a retry loop goes on only after a retry error), and the operation
\* ends with that error.
C7_OtherErrorNotReissued ==
    \A w \in Workers :
        /\ task[w].pc = "sys" /\ task[w].calls > 0 =>
              ~OtherErrorReturned(task[w].last.ret)
        /\ task[w].pc = "done" /\ OtherErrorReturned(task[w].last.ret) =>
              task[w].res = task[w].last.ret

\* C8: a retry error is returned to the caller only after the retry budget is
\* exhausted.
C8_TransientOnlyAfterBudget ==
    \A w \in Workers :
        task[w].pc = "done" /\ TransientReturned(task[w].res) =>
            task[w].last.calls = MaxRetries + 1

\* C9: every retry loop makes at most MaxRetries + 1 calls, and when the
\* budget is exhausted by retry errors the operation returns the error of the
\* last call, never success.
C9_ExhaustionReturnsError ==
    \A w \in Workers :
        /\ task[w].calls <= MaxRetries + 1
        /\ task[w].last.calls <= MaxRetries + 1
        /\ (/\ task[w].pc = "done"
            /\ task[w].last.calls = MaxRetries + 1
            /\ TransientReturned(task[w].last.ret)) =>
                task[w].res = task[w].last.ret

\* C10: a syscall that failed k times with a retry error and then succeeded
\* raised comp.helpers.mod.posix.<op>.retries by exactly k.
C10_CounterCountsReissues ==
    \A w \in Workers :
        task[w].last.ret = "OK" => task[w].last.incs = task[w].last.tfails

\* the names of a directory stream in listing order: "." and ".." removed
Listing(dir) == SelectSeq(dir, LAMBDA x : x \notin {".", ".."})

\* C11: readdir(offset, count) over a stream that was read without an error
\* returns exactly L[offset .. min(offset + count, |L|)) of its listing L, in
\* listing order, never "." or "..", never more than count entries.
C11_ReaddirSubSequence ==
    (/\ call.op = "readdir"
     /\ call.pc = "done"
     /\ call.res = "OK"
     /\ call.loc.failed = "-") =>
        LET L == Listing(call.arg.dir)
        IN  /\ call.loc.ret = SubSeq(L, call.arg.offset + 1,
                                     Min(call.arg.offset + call.arg.count, Len(L)))
            /\ Len(call.loc.ret) <= call.arg.count
            /\ \A i \in 1..Len(call.loc.ret) : call.loc.ret[i] \notin {".", ".."}

\* C12: when a read of a directory entry fails after entries were collected,
\* readdir ends with that error, not with a successful listing.
C12_ReaddirErrorSurfaces ==
    (/\ call.op = "readdir"
     /\ call.pc = "done"
     /\ call.loc.failed # "-"
     /\ Len(call.loc.ret) > 0) => call.res = call.loc.failed

\* the sum of the byte counts of the chunks before place k
RECURSIVE BytesBefore(_, _)
BytesBefore(chunks, k) ==
    IF k <= 1 THEN 0 ELSE BytesBefore(chunks, k - 1) + chunks[k - 1].ret

\* C13: a successful write returns the sum of the byte counts its writev calls
\* returned; chunk i covers the iovec entries [i*IOV_MAX, min((i+1)*IOV_MAX, n)),
\* so every entry goes to exactly one chunk; the write of an empty buffer
\* returns 0; a write that failed carries no byte count.
C13_WriteReturnsChunkSum ==
    \A w \in Workers :
        wr[w].pc = "done" /\ wr[w].res # "EDOM" =>
            LET chunks == wr[w].loc.chunks
                n == wr[w].arg.iov_size
            IN  /\ wr[w].res = "OK" =>
                      /\ wr[w].ret = <<BytesBefore(chunks, Len(chunks) + 1)>>
                      /\ Len(chunks) = (n + IOV_MAX - 1) \div IOV_MAX
                      /\ n = 0 => wr[w].ret = <<0>>
                /\ \A i \in 1..Len(chunks) :
                      /\ chunks[i].from = (i - 1) * IOV_MAX
                      /\ chunks[i].to = Min(i * IOV_MAX, n)
                /\ wr[w].res # "OK" => wr[w].ret = <<>>

\* C14: the bytes of each of two concurrent writes are stored starting at that
\* write's own offset: every chunk of a write lands right after the bytes of
\* its chunks before it, the first at the write's offset.
C14_WriteStoredAtOwnOffset ==
    \A w \in Workers :
        wr[w].pc \in {"writev", "done"} =>
            \A i \in 1..Len(wr[w].loc.chunks) :
                wr[w].loc.chunks[i].at =
                        wr[w].arg.offset + BytesBefore(wr[w].loc.chunks, i)

C15_WitnessRead ==
    /\ call.op = "read"
    /\ call.pc = "done"
    /\ call.res = "OK"
    /\ call.arg.size = MaxSize
    /\ call.loc.reported = 1

\* release() has completed: its task was submitted and is neither waiting nor
\* held by a worker
ReleaseCompleted ==
    /\ releaseLog # <<>>
    /\ \A i \in 1..Len(queue) : queue[i].op # "release"
    /\ \A w \in Workers : task[w].op # "release"

\* C16: after release() has completed on a handle no read, write, flush or
\* fsync on that handle is carried out against the handle's descriptor.
C16_NoSyscallAfterRelease ==
    \A w \in Workers :
        (/\ task[w].op \in {"read", "write", "fsync", "flush"}
         /\ ReleaseCompleted) => ~task[w].issued

\* C17: after symlink(a, b) succeeded, readlink(b) returns exactly a: the value
\* given as the target, not joined with the mount point and not truncated.
C17_ReadlinkReturnsTarget ==
    (/\ call.op = "readlink"
     /\ call.pc = "done"
     /\ call.res = "OK") =>
        call.loc.target = symlinks[root(call.arg.fileId).name].from

\* C18: a POSIX backend call that returns success after more than the helper's
\* timeout completes the future with TimedOut, not with the late success.
C18_LateSuccessTimesOut ==
    (/\ call.op = "read"
     /\ call.pc = "done"
     /\ call.loc.reported >= 0
     /\ call.arg.elapsed > call.arg.m_timeout) => call.res = "ETIMEDOUT"

\* C19: deleteObjects over n keys issues ceil(n / 1000) bulk delete requests,
\* batch j holding the keys [j*1000, min((j+1)*1000, n)): at most 1000 keys
\* each, every key in exactly one request, no request for an empty list.
C19_DeleteBatches ==
    (/\ call.op = "deleteObjects"
     /\ call.pc = "done"
     /\ call.res = "SUCCESS_CODE") =>
        LET requests == call.loc.requests
            n == call.arg.n
        IN  /\ Len(requests) = (n + MAX_DELETE_OBJECTS - 1) \div MAX_DELETE_OBJECTS
            /\ \A j \in 1..Len(requests) :
                  /\ requests[j].from = (j - 1) * MAX_DELETE_OBJECTS
                  /\ requests[j].to = Min(j * MAX_DELETE_OBJECTS, n)

\* the kind of the common taxonomy a std::errc stands for
ErrcKind(code) ==
    CASE code = "no_such_file_or_directory" -> "NotFound"
      [] code = "permission_denied"         -> "PermissionDenied"
      [] code = "host_unreachable"          -> "HostUnreachable"
      [] code = "network_unreachable"       -> "NetworkUnreachable"
      [] code = "timed_out"                 -> "TimedOut"
      [] code = "invalid_argument"          -> "InvalidArgument"
      [] code = "not_supported"             -> "NotSupported"
      [] OTHER                              -> "IoError"

\* the translation the spec lists
S3ListedKind ==
    [NO_SUCH_KEY                   |-> "NotFound",
     NO_SUCH_BUCKET                |-> "NotFound",
     RESOURCE_NOT_FOUND            |-> "NotFound",
     ACCESS_DENIED                 |-> "PermissionDenied",
     SERVICE_UNAVAILABLE           |-> "HostUnreachable",
     NETWORK_CONNECTION            |-> "NetworkUnreachable",
     REQUEST_EXPIRED               |-> "TimedOut",
     INVALID_PARAMETER_VALUE       |-> "InvalidArgument",
     INVALID_PARAMETER_COMBINATION |-> "InvalidArgument"]

\* C20: an S3 call that failed with one of the listed error types ends with the
\* listed kind: NoSuchKey, NoSuchBucket, ResourceNotFound as NotFound,
\* AccessDenied as PermissionDenied, ServiceUnavailable as HostUnreachable,
\* NetworkConnection as NetworkUnreachable, RequestExpired as TimedOut, and
\* InvalidParameterValue and InvalidParameterCombination as InvalidArgument.
C20_S3ErrorTranslation ==
    (/\ call.op \in {"getObject", "deleteObjects"}
     /\ call.pc = "done"
     /\ call.loc.outcome \in DOMAIN S3ListedKind) =>
        ErrcKind(call.res) = S3ListedKind[call.loc.outcome]

\* the S3 calls, each a retry loop of requests
S3Ops == {"getObject", "putObject", "deleteObjects"}

\* C21: an S3 call whose last outcome failed with an error type outside the
\* listed translation (UNKNOWN and MISSING_ACTION among them) ends with
\* IoError, and one whose last outcome succeeded ends with the success code.
C21_UnmappedIsIoError ==
    (/\ call.op \in S3Ops
     /\ call.pc = "done"
     /\ call.loc.outcome # "-") =>
        /\ call.loc.outcome \in S3Errors \ DOMAIN S3ListedKind =>
              ErrcKind(call.res) = "IoError" /\ call.res = "io_error"
        /\ call.loc.outcome = "SUCCESS" => call.res = "SUCCESS_CODE"

\* the transient set of the S3 helper as the specification lists it
S3TransientSet ==
    {"INTERNAL_FAILURE", "INVALID_QUERY_PARAMETER", "INVALID_PARAMETER_COMBINATION",
     "INVALID_PARAMETER_VALUE", "REQUEST_EXPIRED", "SERVICE_UNAVAILABLE",
     "SLOW_DOWN", "THROTTLING", "NETWORK_CONNECTION"}

\* a request of an S3 retry loop has been reissued: the loop goes on after at
\* least one request
S3Reissued == call.op \in S3Ops /\ call.pc = "request" /\ call.loc.calls > 0

\* the loop went on only after an outcome of the transient set, and every
\* reissue raised the retries counter of the operation
S3ReissueOnlyTransient ==
    S3Reissued => call.loc.outcome \in S3TransientSet /\ call.loc.incs = call.loc.calls

\* C22 as stated: a request is reissued if and only if its outcome failed with
\* an error type of the transient set (so no retry loop ends on such an
\* outcome), a success or another error ends the loop at once, and each
\* reissue increments the retries counter.
C22_ReissuedIffTransient ==
    /\ S3ReissueOnlyTransient
    /\ (call.op \in S3Ops /\ call.pc = "done") =>
          call.loc.outcome \notin S3TransientSet

\* C22 amended: the same, except that a retry loop ends on an outcome of the
\* transient set when its budget of MaxRetries reissues is spent, and only
\* then.
C22_ReissuedIffTransientInBudget ==
    /\ S3ReissueOnlyTransient
    /\ (call.op \in S3Ops /\ call.pc = "done" /\ call.loc.calls > 0) =>
          (call.loc.outcome \in S3TransientSet => call.loc.calls = MaxRetries + 1)
    /\ call.op \in S3Ops => call.loc.calls <= MaxRetries + 1

\* a GetObject reissued MaxRetries times after transient failures
C22_Witness ==
    /\ call.op = "getObject"
    /\ call.pc = "request"
    /\ call.loc.calls = MaxRetries
    /\ call.loc.incs = MaxRetries
    /\ call.loc.outcome = "SLOW_DOWN"

\* C23: putObject with offset # 0 ends with NotSupported and issues no
\* PutObject request; with offset = 0 and a successful PutObject it returns
\* the length of the buffer.
C23_PutObjectOffset ==
    (call.op = "putObject" /\ call.pc = "done") =>
        /\ call.arg.offset # 0 =>
              ErrcKind(call.res) = "NotSupported" /\ call.loc.puts = 0
        /\ call.arg.offset = 0 /\ call.res = "SUCCESS_CODE" =>
              call.loc.ret = <<call.arg.size>>

\* the callers inside communicate
InCommunicate == {t \in CommThreads : comm[t].pc # "idle"}

\* C24: every value getMsgId returns is strictly positive, also when the
\* counter is incremented past its largest value and wraps: the counter and
\* the id of every call are above zero.
C24_MsgIdPositive ==
    /\ m_currentMsgId > 0
    /\ \A t \in InCommunicate : comm[t].msgId > 0

\* a call that got its id from the increment that wrapped
C24_Witness ==
    /\ comm[CommCaller].pc = "send"
    /\ comm[CommCaller].msgId = 1
    /\ m_currentMsgId = 1

\* C25: the ids getMsgId hands out increase from one call to the next, and no
\* two calls in progress at once have the same id.
C25_MsgIdIncreasingUnique ==
    [][/\ m_currentMsgId' # m_currentMsgId => m_currentMsgId' > m_currentMsgId
       /\ \A t \in CommThreads, u \in CommThreads :
             (t # u /\ comm'[t].pc # "idle" /\ comm'[u].pc # "idle") =>
                 comm'[t].msgId # comm'[u].msgId]_vars

\* C26: a well-formed incoming message with a negative id goes to the push
\* callback, or is dropped when none is set, and is never stored in the inbox;
\* any other is stored in the inbox under its id, the waiters are notified
\* (a waiter without its entry waits anew), and the push callback is not
\* invoked.
C26_PushOrInbox ==
    /\ \A id \in DOMAIN m_incomingMessages :
          id >= 0 /\ m_incomingMessages[id].message_id = id
    /\ (event.act = "onMessage" /\ event.to # "ignored") =>
          IF event.message_id < 0
          THEN event.to = (IF m_pushCallback THEN "callback" ELSE "dropped")
          ELSE /\ event.to = "inbox"
               /\ event.message_id \in DOMAIN m_incomingMessages
               /\ \A t \in CommThreads :
                     comm[t].pc = "wait" =>
                        \/ comm[t].msgId \in DOMAIN m_incomingMessages
                        \/ comm[t].timer \in {0, MaxTimeout}

\* a push handed to the callback while the caller waits for its answer
C26_Witness ==
    /\ event.act = "onMessage"
    /\ event.to = "callback"
    /\ comm[CommCaller].pc = "wait"

\* an answer stored in the inbox for the caller that waits for it
C26_WitnessInbox ==
    /\ event.act = "onMessage"
    /\ event.to = "inbox"
    /\ event.message_id = comm[CommCaller].msgId
    /\ comm[CommCaller].pc = "wait"

\* C27: receiveMessage(msgId) returns 0 only with the payload stored in the
\* inbox under msgId, and takes that entry out of the inbox; a waiter never
\* gets a payload stored under another id.
C27_ReceiveOwnEntry ==
    [][\A t \in CommThreads :
          (comm[t].pc = "wait" /\ comm'[t].pc = "done") =>
              /\ comm[t].msgId \in DOMAIN m_incomingMessages
              /\ comm'[t].answer = m_incomingMessages[comm[t].msgId]
              /\ comm'[t].answer.message_id = comm[t].msgId
              /\ comm[t].msgId \notin DOMAIN m_incomingMessages']_vars

\* two callers wait on different ids with both entries in the inbox, the one
\* with the larger id first to receive
C27_Witness ==
    /\ comm[1].pc = "done"
    /\ comm[1].answer.message_id = comm[1].msgId
    /\ comm[2].pc = "wait"
    /\ comm[2].msgId < comm[1].msgId
    /\ comm[2].msgId \in DOMAIN m_incomingMessages

\* the kind of the common taxonomy an answer status stands for
StatusKind(answer_status) ==
    CASE answer_status = "VOK"        -> "Ok"
      [] answer_status = "VETIMEDOUT" -> "TimedOut"
      [] answer_status = "VEACCES"    -> "PermissionDenied"
      [] OTHER                        -> "IoError"

\* C28: a call whose receiveMessage timed out with no retry left ends with
\* TimedOut.
C28_TimeoutSurfaces ==
    \A t \in CommThreads :
        (/\ comm[t].pc = "done"
         /\ comm[t].failed = "receiveFailed"
         /\ comm[t].retry = 0) =>
            StatusKind(comm[t].answer.answer_status) = "TimedOut"

\* the sends of a call and the retries it has left add up to what it was
\* given, and a call that gave up has the answer VEIO
CommunicateBounded ==
    \A t \in InCommunicate :
        /\ comm[t].sends <= comm[t].arg + 1
        /\ comm[t].sends + comm[t].retry \in {comm[t].arg, comm[t].arg + 1}
        /\ (comm[t].pc = "done" /\ comm[t].failed # "-") =>
               comm[t].answer.answer_status = "VEIO"

\* C29: communicate(msg, retry) ends, after at most retry + 1 calls of
\* sendMessage; a resend follows a failed send or receive and a successful
\* reconnect and takes one unit of retry; after a failed send with no retry
\* left, or a failed reconnect, the answer has status VEIO.
C29_CommunicateTerminates ==
    /\ []CommunicateBounded
    /\ \A t \in CommThreads : (comm[t].pc # "idle") ~> (comm[t].pc = "done")

\* C30: when communicate returns an answer that is not VOK while a push
\* callback is set, the callback has been invoked with that answer.
C30_ErrorDispatched ==
    \A t \in CommThreads :
        (/\ comm[t].pc = "done"
         /\ comm[t].answer.answer_status # "VOK"
         /\ comm[t].callback) => comm[t].dispatched

C37_SetxattrFlags ==
    [][\A w \in Workers :
          LET t == task[w]
              u == task'[w]
          IN  /\ (t.pc = "idle" /\ u.op = "setxattr" /\ u.valid) =>
                    LET arg == Head(queue).arg
                    IN  IF arg.create /\ arg.replace
                        THEN u.pc = "done" /\ u.res = "EINVAL" /\ ~u.issued
                        ELSE u.pc = "sys" /\ u.st.sys = "setxattr"
              /\ (t.op = "setxattr" /\ t.pc = "sys" /\ u # t) =>
                    /\ ~(t.arg.create /\ t.arg.replace)
                    /\ u.last.ret = "EEXIST" => t.arg.create
                    /\ u.last.ret = "ENODATA" => t.arg.replace /\ ~t.arg.create]_vars

\* a setxattr called with both create and replace in a valid identity scope
\* has ended with EINVAL before any syscall
C37_Witness ==
    \E w \in Workers :
        /\ task[w].op = "setxattr"
        /\ task[w].pc = "done"
        /\ task[w].valid
        /\ task[w].res = "EINVAL"
        /\ ~task[w].issued

\* C38: a task goes past valid() exactly when the thread's ids after the
\* switch are the requested ones, -1 requesting none: it ends with EDOM before
\* any syscall otherwise; a request of (-1, -1) is always valid, and a thread
\* inside a task body has every requested id.
C38_ValidIffAdopted ==
    \A w \in Workers :
        LET t == task[w] IN
        /\ t.pc \in {"sys", "done"} =>
              (t.valid <=> ~(t.pc = "done" /\ t.res = "EDOM" /\ ~t.issued))
        /\ (t.pc \in {"sys", "done"} /\ m_uid = NoId /\ m_gid = NoId) =>
              t.res # "EDOM"
        /\ t.pc = "sys" =>
              /\ m_uid = NoId \/ fsuid[w] = m_uid
              /\ m_gid = NoId \/ fsgid[w] = m_gid

\* a request of (-1, -1) made by a process without capabilities has gone past
\* valid() and issued a syscall
C38_Witness ==
    \E w \in Workers :
        /\ m_uid = NoId /\ m_gid = NoId
        /\ caps = {}
        /\ task[w].pc = "done"
        /\ task[w].issued

\* the places in the list of the tags that occur in hostname
Occurring(hostname) ==
    {i \in 1..Len(regions) :
        \E k \in 1..Len(hostname) :
            /\ k + Len(regions[i]) - 1 <= Len(hostname)
            /\ \A c \in 1..Len(regions[i]) : hostname[k + c - 1] = regions[i][c]}

\* C39: getRegion(hostname) is the first tag of the list, in the list's
\* order, that occurs in hostname, and us-east-1 when none occurs; it is always
\* a tag of the list.
C39_FirstTagInListOrder ==
    call.op = "getRegion" =>
        LET hostname == call.arg.hostname
            occ == Occurring(hostname)
        IN  /\ call.res \in RangeOf(regions)
            /\ occ = {} => call.res = regions[2]
            /\ \A i \in occ : (\A j \in occ : i <= j) => call.res = regions[i]

\* a hostname in which us-west-1 comes before us-east-2 has the region
\* us-east-2, the earlier tag of the list
C39_Witness ==
    /\ call.op = "getRegion"
    /\ call.arg.hostname = regions[3] \o regions[1]
    /\ call.res = regions[1]

\* C35: once the receiveMessage of a request has timed out, the inbox holds no
\* entry under the id of that request: a response that comes after the timeout
\* does not stay in the inbox (where a later request that gets the same id would
\* find it).
C35_NoStaleEntry ==
    \A t \in CommThreads :
        (\/ comm[t].pc = "receiveFailed"
         \/ comm[t].pc = "done" /\ comm[t].failed = "receiveFailed") =>
            comm[t].msgId \notin DOMAIN m_incomingMessages

\* C31: a sendMessage that returns 0 has handed the message to the endpoint,
\* whatever the worker thread's handlers did to the status meanwhile.
C31_ZeroOnlyIfSent ==
    (event.act = "sendMessage" /\ event.ret = "0") => event.did

\* C32: closeConnection, and the joins at the start of openConnection, end:
\* whatever handler the worker thread is in, a call in progress or the worker
\* thread can take a step; and when closeConnection has returned the status is
\* CLOSED.
C32_CloseTerminates ==
    /\ conn.pc # "idle" => ENABLED ConnProgress
    /\ event.act = "closeConnection" => m_connectStatus = "CLOSED"

\* C33: openConnection returns 0 exactly when the status is CONNECTED as it
\* returns; called while CONNECTED it returns 0 and leaves the endpoint and
\* the worker alone; else it sets the status to TIMEOUT first, only onOpen
\* makes the status CONNECTED, and with the status still TIMEOUT when the wait
\* ends TIMEOUT is returned.
C33_OpenConnectionResult ==
    [][/\ event'.act = "openConnection" =>
             (event'.ret = "0" <=> m_connectStatus' = "CONNECTED")
       /\ (conn.pc = "idle" /\ m_connectStatus = "CONNECTED"
             /\ event'.act \in {"openConnection", "openConnection:enter"}) =>
             /\ event'.act = "openConnection" /\ event'.ret = "0"
             /\ conn' = conn /\ m_connectStatus' = m_connectStatus
       /\ event'.act = "openConnection:enter" => m_connectStatus' = "TIMEOUT"
       /\ (m_connectStatus # "CONNECTED" /\ m_connectStatus' = "CONNECTED") =>
             event'.act = "onOpen"
       /\ (conn.pc = "openWait" /\ m_connectStatus = "TIMEOUT"
             /\ event'.act = "openConnection") => event'.ret = "TIMEOUT"]_vars

\* openConnection has returned 0 after onOpen came during its wait
C33_Witness ==
    /\ event.act = "openConnection"
    /\ event.ret = "0"
    /\ conn.m_worker1 = "run"
    /\ conn.link = "open"

\* C34: after enablePushChannel the flag is true, after disablePushChannel
\* false, in every status; enablePushChannel registers only when the flag was
\* false, the status is CONNECTED and a callback is set (two calls in a row
\* register at most once); disablePushChannel sends the close request only
\* when the flag was true and the status is CONNECTED; openConnection
\* registers only when it has connected, the flag is true, a callback is set
\* and the fuse id is not empty.
C34_PushChannelState ==
    [][/\ event'.act = "enablePushChannel" =>
             /\ conn'.m_isPushChannel
             /\ event'.did => (/\ ~conn.m_isPushChannel
                               /\ m_connectStatus = "CONNECTED"
                               /\ m_pushCallback)
             /\ event.act = "enablePushChannel" => ~(event.did /\ event'.did)
       /\ event'.act = "disablePushChannel" =>
             /\ ~conn'.m_isPushChannel
             /\ event'.did => (conn.m_isPushChannel /\ m_connectStatus = "CONNECTED")
       /\ (event'.act = "openConnection" /\ event'.did) =>
             /\ event'.ret = "0" /\ m_connectStatus' = "CONNECTED"
             /\ conn.m_isPushChannel /\ m_pushCallback /\ conn.m_fuseID]_vars

\* enablePushChannel, called on a connected handler with a callback set and
\* the flag down, has registered the channel
C34_Witness ==
    /\ event.act = "enablePushChannel"
    /\ event.did
    /\ conn.m_isPushChannel
    /\ m_connectStatus = "CONNECTED"

\* C40: a read or write of the proxy ends: as long as a call is in progress, a
\* worker thread can take a step, however many calls are in progress at once.
C40_ProxyCallCompletes == InProgress > 0 => ENABLED ProxyProgress

====
